---- MODULE Spec2Model ----
(***************************************************************************)
(* State-machine model of the web voice server (src/app.py) with the      *)
(* adapters it calls (src/stt.py, src/tts.py).  One session registry,     *)
(* the per-session utterance segmenter driven by handle_audio_chunk, and  *)
(* the per-utterance turn (process_speech) with its TTS worker thread.    *)
(* The local assistant (src/main.py) is a second program with state of    *)
(* its own: the loop of LiveAssistant.run.  The /hume namespace of the    *)
(* server with its bridge (src/huss.py) and the playback of the realtime  *)
(* client (src/run.py) have their own variables and specifications.       *)
(*                                                                         *)
(* Text is a sequence of one-character strings, so that str.strip, len    *)
(* and substring tests are computed as Python computes them.              *)
(* An audio frame is represented by the answer the detector gives for it: *)
(* "S" speech, "N" non-speech, "E" the detector raises.                  *)
(***************************************************************************)
EXTENDS Integers, Sequences, FiniteSets, TLC

\* ---------------------------------------------------------------- bounds
\* Number of background tasks start_background_task may create in a run.
MaxTurns == 2
\* Number of chunks the completion streams of a run yield at most (a stream
\* is finite).
MaxTokens == 2
\* Number of those chunks in a run that creates more than one task.
MaxSharedTokens == 0
\* Number of audio_chunk events handled for a sid after its disconnect.
MaxLate == 1
\* Number of speech frames one utterance holds at most.
MaxSpeech == 1
\* Number of adapter failures (STT, completion, synthesis, emit) in a run.
MaxFaults == 1

\* Number of frames the loop of the local assistant takes in a run.
MaxLocalFrames == 33
\* Number of consecutive speech frames the local assistant counts at most.
MaxLocalSpeech == 5
\* Number of frames below the energy threshold one local utterance holds.
MaxQuiet == 1
\* Number of speech frames of an utterance, and of tasks created, in a run of
\* the segmenter alone.
MaxSegSpeech == 2
MaxSegTurns == 1
\* Number of frames of silence a recording holds between two chunks in a run
\* with two clients.
MaxPairSilence == 1
\* Number of frames the local assistant takes in a run with playback.
MaxDuplexFrames == 8
\* Tenths of a second a run with playback lasts at most.
MaxElapsed == 30
\* Number of process_audio threads the local assistant starts in a run.
MaxThreads == 2
\* Number of chunks the completion streams yield in a run of replies.
MaxReplyTokens == 3
\* Number of audio_chunk events of a sid on /hume, and of messages Hume sends
\* to it.
MaxHumeAudio == 2
MaxHumeMessages == 1
\* run.py: number of audio deltas the server sends in a run, samples one
\* delta holds at most, and samples the output stream asks for per callback.
MaxChunks == 6
MaxChunkLen == 3
BlockFrames == 2

\* ------------------------------------------------------ program constants
FRAME_DURATION == 30
FRAME_BYTES == 960
SILENCE_MS == 300
MIN_SENTENCE_LEN == 15
MIN_TEXT_LEN == 2
\* main.py; times are in tenths of a second.
SAMPLE_RATE == 16000
LOCAL_SILENCE_MS == 800
DEBOUNCE_FRAMES == 3
INTERRUPTION_COOLDOWN == 20
POST_SPEECH_SILENCE == 8
\* time.time() at the start of a run, far above the two windows.
StartOfRun == 1000
\* not text.strip() or len(text.strip()) < 3
LOCAL_MIN_TEXT_LEN == 3
\* The least length of an utterance worth transcribing, in milliseconds
\* (SAMPLE_RATE * 0.5 seconds).
MIN_UTTERANCE_MS == 500
\* That length in whole frames.
MinUtteranceFrames == (MIN_UTTERANCE_MS + FRAME_DURATION - 1) \div FRAME_DURATION

\* The bound on the work of a run: nt tasks created, nk stream chunks read.
WithinBounds(nt, nk) ==
  /\ nt <= MaxTurns
  /\ nk <= MaxTokens
  /\ nt <= 1 \/ nk <= MaxSharedTokens

\* The sids of a run, and the one sid of a run with a single client.
Sids == {"s1", "s2"}
Solo == {"s1"}
\* main.py: the process_audio threads of a run, in the order they start.
Threads == 1..MaxThreads
Turns == 1..MaxTurns
\* A sid gets one object at connect and at most one more from a late chunk.
ObjIds == 1..(2 * Cardinality(Sids))
NoObj == 0

\* ------------------------------------------------------------------ text
Rep(c, n) == [i \in 1..n |-> c]

Whitespace == {" ", "\n"}

RECURSIVE LStrip(_)
LStrip(s) == IF s # <<>> /\ Head(s) \in Whitespace THEN LStrip(Tail(s)) ELSE s

RECURSIVE RStrip(_)
RStrip(s) ==
  IF s # <<>> /\ s[Len(s)] \in Whitespace
  THEN RStrip(SubSeq(s, 1, Len(s) - 1))
  ELSE s

\* str.strip()
Strip(s) == RStrip(LStrip(s))

\* any(p in sentence_buffer for p in ['.', '!', '?', '\n'])
Terminals == {".", "!", "?", "\n"}
HasTerminal(s) == \E i \in 1..Len(s) : s[i] \in Terminals

SYSTEM_PROMPT == <<"P">>

\* What the STT engine may hand back before STT.transcribe strips it.
RawTexts == {<<>>, <<" ">>, <<" ", "a">>, <<"h", "i", " ">>}

\* Fragments the completion stream may yield; the empty one stands for a
\* delta whose content is None or "".
TokEmpty == <<>>
TokShort == <<"H", "i">>
TokLong == Rep("a", MIN_SENTENCE_LEN) \o <<".">>
Tokens == {TokEmpty, TokShort, TokLong}
\* Two more fragments: one that brings the buffer to exactly 15 characters
\* with a terminal among them, and one of whitespace only.
TokEdge == Rep("a", MIN_SENTENCE_LEN - 1) \o <<".">>
TokBlank == <<" ">>
SplitTokens == Tokens \cup {TokEdge, TokBlank}

\* ---------------------------------------------------------------- events
Ev(e, i, x) == [ev |-> e, index |-> i, text |-> x]
Outcomes == {"bot_audio", "bot_audio_skip"}

\* The local 'text' before stt_model.transcribe has returned.
NoText == <<"unset">>

\* None, the stop sentinel of the TTS queue.
Sentinel == [text |-> <<>>, index |-> -1]

VARIABLES
  sessions,     \* the registry: sid -> object reference, NoObj when absent
  conn,         \* transport view of a sid: "new", "open", "closed"
  nobj,         \* number of SessionState objects constructed
  heap,         \* object reference -> SessionState fields
  hlog,         \* sid -> status events emitted by handle_audio_chunk
  nturns,       \* number of background tasks created
  pc,           \* turn -> position of process_speech
  t_sid,        \* turn -> sid argument
  t_audio,      \* turn -> audio_bytes argument (the utterance's frames)
  t_state,      \* turn -> the local 'state' reference
  t_text,       \* turn -> the local 'text'
  full_reply,   \* turn -> local full_reply
  sentence_buffer, \* turn -> local sentence_buffer
  chunk_index,  \* turn -> local chunk_index
  tts_queue,    \* turn -> the turn's queue.Queue, oldest first
  units,        \* turn -> every (text, index) put on the queue so far
  wpc,          \* turn -> position of the turn's tts_worker thread
  witem,        \* turn -> the worker's local (text, index)
  audio_response_bytes, \* turn -> the worker's local of that name
  werr,         \* turn -> indices the worker's except branch reported
  out,          \* turn -> events the turn and its worker emitted, in order
  ntok,         \* chunks read from completion streams so far
  late,         \* sid -> audio_chunk events handled after its disconnect
  faults,       \* adapter failures so far
  assistant,    \* main.py: LiveAssistant fields and the locals of run
  tts_is_playing, \* main.py: self.tts.is_playing
  nframes,      \* main.py: frames the loop of run has taken
  clock,        \* main.py: the value time.time() returned last
  thread_pc,    \* main.py: process_audio thread -> its position
  sessions_hume, \* app.py: the sids whose bridge is in the /hume registry
  hume_conn,    \* transport view of a sid on /hume: "new", "open", "closed"
  bridge,       \* huss.py: sid -> fields of its HumeEVIBridge and the
                \* position of its start task
  hume_log,     \* sid -> what happened for it on /hume, in order
  playback_deque, \* run.py: state.playback_deque, oldest chunk first
  is_playing,   \* run.py: state.is_playing
  received,     \* run.py: samples appended by receive_events so far
  written       \* run.py: samples playback_callback copied to outdata

segvars == <<sessions, conn, nobj, hlog, nturns, late>>
turnvars == <<pc, t_sid, t_audio, t_state, t_text, full_reply,
              sentence_buffer, chunk_index, tts_queue, units>>
workvars == <<wpc, witem, audio_response_bytes, werr>>
humevars == <<sessions_hume, hume_conn, bridge, hume_log>>
playvars == <<playback_deque, is_playing, received, written>>
othervars == <<humevars, playvars>>
localvars == <<assistant, tts_is_playing, nframes, clock, thread_pc,
               othervars>>
vars == <<sessions, conn, nobj, heap, hlog, nturns, late, pc, t_sid,
          t_audio, t_state, t_text, full_reply, sentence_buffer, chunk_index,
          tts_queue, units, wpc, witem, audio_response_bytes, werr, out,
          ntok, faults, assistant, tts_is_playing, nframes, clock,
          thread_pc, sessions_hume, hume_conn, bridge, hume_log,
          playback_deque, is_playing, received, written>>

\* ---------------------------------------------------------- SessionState
SessionState ==
  [vad_buffer |-> 0, audio_buffer |-> <<>>, is_recording |-> FALSE,
   silent_frames |-> 0, speech_frames |-> 0,
   conversation |-> <<[role |-> "system", content |-> SYSTEM_PROMPT]>>,
   processing |-> FALSE]

\* LiveAssistant.__init__ and the locals run sets before its loop.
LiveAssistant ==
  [is_recording |-> FALSE, audio_buffer |-> <<>>, silent_frames |-> 0,
   speech_frames_count |-> 0, was_playing |-> FALSE,
   last_stop_talking_time |-> 0, playback_start_time |-> 0,
   threads |-> <<>>, loop |-> "running",
   conversation |-> <<[role |-> "system", content |-> SYSTEM_PROMPT]>>]

\* HumeEVIBridge.__init__, and the start task not created yet.
HumeEVIBridge ==
  [client |-> FALSE, hume_socket |-> FALSE, is_connected |-> FALSE,
   stop_event |-> FALSE, task |-> "none"]

Init ==
  /\ sessions = [s \in Sids |-> NoObj]
  /\ conn = [s \in Sids |-> "new"]
  /\ nobj = 0
  /\ heap = [o \in ObjIds |-> SessionState]
  /\ hlog = [s \in Sids |-> <<>>]
  /\ nturns = 0
  /\ pc = [t \in Turns |-> "free"]
  /\ t_sid = [t \in Turns |-> CHOOSE s \in Sids : TRUE]
  /\ t_audio = [t \in Turns |-> <<>>]
  /\ t_state = [t \in Turns |-> NoObj]
  /\ t_text = [t \in Turns |-> NoText]
  /\ full_reply = [t \in Turns |-> <<>>]
  /\ sentence_buffer = [t \in Turns |-> <<>>]
  /\ chunk_index = [t \in Turns |-> 0]
  /\ tts_queue = [t \in Turns |-> <<>>]
  /\ units = [t \in Turns |-> <<>>]
  /\ wpc = [t \in Turns |-> "none"]
  /\ witem = [t \in Turns |-> Sentinel]
  /\ audio_response_bytes = [t \in Turns |-> "unset"]
  /\ werr = [t \in Turns |-> <<>>]
  /\ out = [t \in Turns |-> <<>>]
  /\ ntok = 0
  /\ late = [s \in Sids |-> 0]
  /\ faults = 0
  /\ assistant = LiveAssistant
  /\ tts_is_playing = FALSE
  /\ nframes = 0
  /\ clock = StartOfRun
  /\ thread_pc = [i \in Threads |-> "transcribe"]
  /\ sessions_hume = {}
  /\ hume_conn = [s \in Sids |-> "new"]
  /\ bridge = [s \in Sids |-> HumeEVIBridge]
  /\ hume_log = [s \in Sids |-> <<>>]
  /\ playback_deque = <<>>
  /\ is_playing = FALSE
  /\ received = <<>>
  /\ written = <<>>

\* ------------------------------------------------- connect / disconnect
\* Fault seeding: a connect that registers one object for every sid.
handle_connect_Shared(sid) ==
  /\ conn[sid] = "new"
  /\ nobj < Cardinality(ObjIds)
  /\ conn' = [conn EXCEPT ![sid] = "open"]
  /\ nobj' = nobj + 1
  /\ sessions' = [sessions EXCEPT ![sid] = 1]
  /\ heap' = [heap EXCEPT ![1] = SessionState]
  /\ UNCHANGED <<hlog, nturns, late, turnvars, workvars, out, ntok, faults>>

handle_connect(sid) ==
  /\ conn[sid] = "new"
  /\ nobj < Cardinality(ObjIds)
  /\ conn' = [conn EXCEPT ![sid] = "open"]
  /\ nobj' = nobj + 1
  /\ sessions' = [sessions EXCEPT ![sid] = nobj + 1]
  /\ heap' = [heap EXCEPT ![nobj + 1] = SessionState]
  /\ UNCHANGED <<hlog, nturns, late, turnvars, workvars, out, ntok, faults>>

handle_disconnect(sid) ==
  /\ conn[sid] = "open"
  /\ conn' = [conn EXCEPT ![sid] = "closed"]
  /\ sessions' = [sessions EXCEPT ![sid] = NoObj]
  /\ UNCHANGED <<nobj, heap, hlog, nturns, late, turnvars, workvars, out,
                 ntok, faults>>

\* ------------------------------------------------------ handle_audio_chunk
\* Fault seeding: an end of utterance that waits for one more frame of
\* silence.
SilenceFrames_Long == (SILENCE_MS \div FRAME_DURATION) + 1

\* 300 / FRAME_DURATION
SilenceFrames == SILENCE_MS \div FRAME_DURATION

\* Fault seeding: a segmenter whose speech frames leave the silence counter.
ProcessFrame_NoReset(c, f) ==
  LET st == c.st IN
  IF f = "E" THEN c
  ELSE IF f = "S" THEN
    [c EXCEPT
      !.st = [st EXCEPT !.is_recording = TRUE,
                        !.audio_buffer = Append(@, f),
                        !.speech_frames = @ + 1],
      !.emits = IF st.is_recording THEN @ ELSE Append(@, "listening"),
      !.peak = IF st.speech_frames + 1 > @ THEN st.speech_frames + 1 ELSE @]
  ELSE IF st.is_recording THEN
    IF st.silent_frames + 1 > SilenceFrames
    THEN [c EXCEPT
           !.st = [st EXCEPT !.is_recording = FALSE,
                             !.audio_buffer = <<>>,
                             !.silent_frames = 0,
                             !.speech_frames = 0],
           !.emits = Append(@, "processing"),
           !.utts = Append(@, Append(st.audio_buffer, f))]
    ELSE [c EXCEPT
           !.st = [st EXCEPT !.silent_frames = @ + 1,
                             !.audio_buffer = Append(@, f)]]
  ELSE c

\* Fault seeding: a segmenter that keeps the frames of silence before speech.
ProcessFrame_PreRoll(c, f) ==
  LET st == c.st IN
  IF f = "E" THEN c
  ELSE IF f = "S" THEN
    [c EXCEPT
      !.st = [st EXCEPT !.is_recording = TRUE,
                        !.audio_buffer = Append(@, f),
                        !.speech_frames = @ + 1,
                        !.silent_frames = 0],
      !.emits = IF st.is_recording THEN @ ELSE Append(@, "listening"),
      !.peak = IF st.speech_frames + 1 > @ THEN st.speech_frames + 1 ELSE @]
  ELSE IF st.is_recording THEN
    IF st.silent_frames + 1 > SilenceFrames
    THEN [c EXCEPT
           !.st = [st EXCEPT !.is_recording = FALSE,
                             !.audio_buffer = <<>>,
                             !.silent_frames = 0,
                             !.speech_frames = 0],
           !.emits = Append(@, "processing"),
           !.utts = Append(@, Append(st.audio_buffer, f))]
    ELSE [c EXCEPT
           !.st = [st EXCEPT !.silent_frames = @ + 1,
                             !.audio_buffer = Append(@, f)]]
  ELSE [c EXCEPT !.st = [st EXCEPT !.audio_buffer = <<f>>]]

\* One pass of the while loop body on a cut frame whose detector answer is f.
\* c carries the session fields, the statuses emitted and the utterances
\* handed to start_background_task so far in this call (and, for the bound
\* on utterance length, the largest speech_frames seen).
ProcessFrame(c, f) ==
  LET st == c.st IN
  IF f = "E" THEN c
  ELSE IF f = "S" THEN
    [c EXCEPT
      !.st = [st EXCEPT !.is_recording = TRUE,
                        !.audio_buffer = Append(@, f),
                        !.speech_frames = @ + 1,
                        !.silent_frames = 0],
      !.emits = IF st.is_recording THEN @ ELSE Append(@, "listening"),
      !.peak = IF st.speech_frames + 1 > @ THEN st.speech_frames + 1 ELSE @]
  ELSE IF st.is_recording THEN
    IF st.silent_frames + 1 > SilenceFrames
    THEN [c EXCEPT
           !.st = [st EXCEPT !.is_recording = FALSE,
                             !.audio_buffer = <<>>,
                             !.silent_frames = 0,
                             !.speech_frames = 0],
           !.emits = Append(@, "processing"),
           !.utts = Append(@, Append(st.audio_buffer, f))]
    ELSE [c EXCEPT
           !.st = [st EXCEPT !.silent_frames = @ + 1,
                             !.audio_buffer = Append(@, f)]]
  ELSE c

RECURSIVE ProcessFrames(_, _)
ProcessFrames(c, run) ==
  IF run = <<>> THEN c ELSE ProcessFrames(ProcessFrame(c, Head(run)), Tail(run))

\* Fault seeding: a handler without the processing gate.
ChunkBody_NoGate(st, nbytes, run) ==
  IF nbytes % 2 = 1
  THEN [st |-> st, emits |-> <<>>, utts |-> <<>>, peak |-> 0]
  ELSE ProcessFrames(
         [st |-> [st EXCEPT !.vad_buffer = (@ + nbytes) % FRAME_BYTES],
          emits |-> <<>>, utts |-> <<>>, peak |-> 0],
         run)

\* The body of handle_audio_chunk on session fields st, for nbytes bytes whose
\* frames get the detector answers in run.  chunk_count, rms_buffer and
\* last_activity feed only the diagnostic print and are left out;
\* np.frombuffer(data, dtype=np.int16) raises on an odd number of bytes.
ChunkBody(st, nbytes, run) ==
  IF nbytes % 2 = 1 \/ st.processing
  THEN [st |-> st, emits |-> <<>>, utts |-> <<>>, peak |-> 0]
  ELSE ProcessFrames(
         [st |-> [st EXCEPT !.vad_buffer = (@ + nbytes) % FRAME_BYTES],
          emits |-> <<>>, utts |-> <<>>, peak |-> 0],
         run)

\* Number of frames the while loop cuts.
FramesCut(st, nbytes) ==
  IF nbytes % 2 = 1 \/ st.processing THEN 0
  ELSE (st.vad_buffer + nbytes) \div FRAME_BYTES

\* Sizes of the chunks a client sends: half a frame, an odd number of bytes,
\* one frame, one whole utterance, two whole utterances.
UtteranceFrames == SilenceFrames + 2
ChunkSizes ==
  {FRAME_BYTES \div 2, FRAME_BYTES \div 2 + 1, FRAME_BYTES,
   UtteranceFrames * FRAME_BYTES, 2 * UtteranceFrames * FRAME_BYTES}

\* Detector answers for n frames: every combination for a short chunk; for a
\* long one, silence throughout or one speech frame heading each utterance.
VadRuns(n) ==
  IF n <= 1 THEN [1..n -> {"S", "N", "E"}]
  ELSE {[i \in 1..n |-> "N"],
        [i \in 1..n |-> IF i % UtteranceFrames = 1 THEN "S" ELSE "N"]}

handle_audio_chunk(sid, nbytes, run) ==
  LET fresh == sessions[sid] = NoObj
      o == IF fresh THEN nobj + 1 ELSE sessions[sid]
      st0 == IF fresh THEN SessionState ELSE heap[o]
      r == ChunkBody(st0, nbytes, run)
      k == Len(r.utts)
      new == (nturns + 1)..(nturns + k)
  IN
  /\ conn[sid] \in {"open", "closed"}
  /\ conn[sid] = "closed" => late[sid] < MaxLate
  /\ late' = [late EXCEPT ![sid] = IF conn[sid] = "closed" THEN @ + 1 ELSE @]
  /\ fresh => nobj < Cardinality(ObjIds)
  /\ Len(run) = FramesCut(st0, nbytes)
  /\ sessions' = [sessions EXCEPT ![sid] = o]
  /\ nobj' = IF fresh THEN nobj + 1 ELSE nobj
  /\ heap' = [heap EXCEPT ![o] = r.st]
  /\ hlog' = [hlog EXCEPT ![sid] = @ \o r.emits]
  /\ nturns' = nturns + k
  /\ pc' = [t \in Turns |-> IF t \in new THEN "spawned" ELSE pc[t]]
  /\ t_sid' = [t \in Turns |-> IF t \in new THEN sid ELSE t_sid[t]]
  /\ t_audio' = [t \in Turns |->
                   IF t \in new THEN r.utts[t - nturns] ELSE t_audio[t]]
  /\ UNCHANGED <<conn, t_state, t_text, full_reply, sentence_buffer,
                 chunk_index, tts_queue, units, workvars, out, ntok, faults>>

\* ---------------------------------------------------------- process_speech
Running == {"stt", "open", "read", "join"}
InFlight == {"spawned"} \cup Running

SetProcessing(o, b) == [heap EXCEPT ![o].processing = b]

\* STT.transcribe: the joined segment texts, stripped.
transcribe(raw) == Strip(raw)

\* Fault seeding: a rejection test without the minimum length.
Rejected_Empty(text) == Strip(text) = <<>>

\* not text.strip() or len(text.strip()) < 2
Rejected(text) == Strip(text) = <<>> \/ Len(Strip(text)) < MIN_TEXT_LEN

\* Fault seeding: an except branch with no finally, which leaves processing
\* set.
Fail_Stuck(t) ==
  /\ faults < MaxFaults
  /\ faults' = faults + 1
  /\ UNCHANGED <<ntok, heap>>
  /\ out' = [out EXCEPT ![t] = @ \o <<Ev("error", -1, <<>>),
                                     Ev("ready", -1, <<>>)>>]
  /\ pc' = [pc EXCEPT ![t] = "done"]

\* The except branch and the two statements after it.
Fail(t) ==
  /\ faults < MaxFaults
  /\ faults' = faults + 1
  /\ UNCHANGED ntok
  /\ out' = [out EXCEPT ![t] = @ \o <<Ev("error", -1, <<>>),
                                     Ev("ready", -1, <<>>)>>]
  /\ heap' = SetProcessing(t_state[t], FALSE)
  /\ pc' = [pc EXCEPT ![t] = "done"]

\* Fault seeding: a task that tests the registry but works on the object the
\* sid had first, whatever the registry holds by now.
Start_First(t) ==
  /\ pc[t] = "spawned"
  /\ IF sessions[t_sid[t]] = NoObj
     THEN /\ pc' = [pc EXCEPT ![t] = "done"]
          /\ UNCHANGED <<heap, t_state>>
     ELSE /\ pc' = [pc EXCEPT ![t] = "stt"]
          /\ t_state' = [t_state EXCEPT ![t] = 1]
          /\ heap' = SetProcessing(1, TRUE)
  /\ UNCHANGED <<segvars, t_sid, t_audio, t_text, full_reply,
                 sentence_buffer, chunk_index, tts_queue, units, workvars,
                 out, ntok, faults>>

\* The task starts: the registry lookup and state.processing = True.
Start(t) ==
  /\ pc[t] = "spawned"
  /\ IF sessions[t_sid[t]] = NoObj
     THEN /\ pc' = [pc EXCEPT ![t] = "done"]
          /\ UNCHANGED <<heap, t_state>>
     ELSE /\ pc' = [pc EXCEPT ![t] = "stt"]
          /\ t_state' = [t_state EXCEPT ![t] = sessions[t_sid[t]]]
          /\ heap' = SetProcessing(sessions[t_sid[t]], TRUE)
  /\ UNCHANGED <<segvars, t_sid, t_audio, t_text, full_reply,
                 sentence_buffer, chunk_index, tts_queue, units, workvars,
                 out, ntok, faults>>

\* stt_model.transcribe returns raw, stripped; the turn is dropped or accepted.
SttReturn(t, raw) ==
  LET text == transcribe(raw)
      o == t_state[t]
  IN
  /\ pc[t] = "stt"
  /\ t_text' = [t_text EXCEPT ![t] = text]
  /\ IF Rejected(text)
     THEN /\ heap' = SetProcessing(o, FALSE)
          /\ out' = [out EXCEPT ![t] = Append(@, Ev("ready", -1, <<>>))]
          /\ pc' = [pc EXCEPT ![t] = "done"]
     ELSE /\ out' = [out EXCEPT ![t] = Append(@, Ev("transcription", -1, text))]
          /\ heap' = [heap EXCEPT ![o].conversation =
                        Append(@, [role |-> "user", content |-> text])]
          /\ pc' = [pc EXCEPT ![t] = "open"]
  /\ UNCHANGED <<segvars, t_sid, t_audio, t_state, ntok, full_reply,
                 sentence_buffer, chunk_index, tts_queue, units, workvars,
                 faults>>

SttRaise(t) ==
  /\ pc[t] = "stt"
  /\ Fail(t)
  /\ UNCHANGED <<segvars, t_sid, t_audio, t_state, t_text, full_reply,
                 sentence_buffer, chunk_index, tts_queue, units, workvars>>

\* client.chat.completions.create returns the stream; the queue and the
\* worker thread are created and the locals initialised.
OpenStream(t) ==
  /\ pc[t] = "open"
  /\ pc' = [pc EXCEPT ![t] = "read"]
  /\ tts_queue' = [tts_queue EXCEPT ![t] = <<>>]
  /\ wpc' = [wpc EXCEPT ![t] = "get"]
  /\ full_reply' = [full_reply EXCEPT ![t] = <<>>]
  /\ sentence_buffer' = [sentence_buffer EXCEPT ![t] = <<>>]
  /\ chunk_index' = [chunk_index EXCEPT ![t] = 0]
  /\ UNCHANGED <<segvars, heap, t_sid, t_audio, t_state, t_text, units,
                 witem, audio_response_bytes, werr, out, ntok, faults>>

OpenRaise(t) ==
  /\ pc[t] = "open"
  /\ Fail(t)
  /\ UNCHANGED <<segvars, t_sid, t_audio, t_state, t_text, full_reply,
                 sentence_buffer, chunk_index, tts_queue, units, workvars>>

\* Fault seeding: a queue that hands out the newest item first.
QueuePut_Front(q, item) == <<item>> \o q

\* queue.Queue: put at the back, get from the front.
QueuePut(q, item) == Append(q, item)

\* any(p in sentence_buffer ...) and len(sentence_buffer) > 15
SplitNow(buf) == HasTerminal(buf) /\ Len(buf) > MIN_SENTENCE_LEN

\* One pass of 'for chunk in stream' on a fragment.
\* Fault seeding: the fragment that completes a sentence is forwarded only
\* after the sentence, not at all in the step that submits the unit.
ReadToken_UnitFirst(t, token) ==
  LET buf == sentence_buffer[t] \o token
      unit == [text |-> Strip(buf), index |-> chunk_index[t]]
  IN
  /\ pc[t] = "read"
  /\ ntok' = ntok + 1
  /\ IF token = <<>>
     THEN UNCHANGED <<full_reply, sentence_buffer, chunk_index, tts_queue,
                      units, out>>
     ELSE /\ full_reply' = [full_reply EXCEPT ![t] = @ \o token]
          /\ IF SplitNow(buf)
             THEN /\ sentence_buffer' = [sentence_buffer EXCEPT ![t] = <<>>]
                  /\ tts_queue' = [tts_queue EXCEPT ![t] = QueuePut(@, unit)]
                  /\ units' = [units EXCEPT ![t] = Append(@, unit)]
                  /\ chunk_index' = [chunk_index EXCEPT ![t] = @ + 1]
                  /\ UNCHANGED out
             ELSE /\ sentence_buffer' = [sentence_buffer EXCEPT ![t] = buf]
                  /\ out' = [out EXCEPT
                               ![t] = Append(@, Ev("llm_token", -1, token))]
                  /\ UNCHANGED <<tts_queue, units, chunk_index>>
  /\ UNCHANGED <<segvars, heap, pc, t_sid, t_audio, t_state, t_text,
                 workvars, faults>>

\* Fault seeding: a split that submits the fragment read last instead of
\* the sentence buffer.
ReadToken_LastFragment(t, token) ==
  LET buf == sentence_buffer[t] \o token
      unit == [text |-> Strip(token), index |-> chunk_index[t]]
  IN
  /\ pc[t] = "read"
  /\ ntok' = ntok + 1
  /\ IF token = <<>>
     THEN UNCHANGED <<full_reply, sentence_buffer, chunk_index, tts_queue,
                      units, out>>
     ELSE /\ full_reply' = [full_reply EXCEPT ![t] = @ \o token]
          /\ out' = [out EXCEPT ![t] = Append(@, Ev("llm_token", -1, token))]
          /\ IF SplitNow(buf)
             THEN /\ sentence_buffer' = [sentence_buffer EXCEPT ![t] = <<>>]
                  /\ tts_queue' = [tts_queue EXCEPT ![t] = QueuePut(@, unit)]
                  /\ units' = [units EXCEPT ![t] = Append(@, unit)]
                  /\ chunk_index' = [chunk_index EXCEPT ![t] = @ + 1]
             ELSE /\ sentence_buffer' = [sentence_buffer EXCEPT ![t] = buf]
                  /\ UNCHANGED <<tts_queue, units, chunk_index>>
  /\ UNCHANGED <<segvars, heap, pc, t_sid, t_audio, t_state, t_text,
                 workvars, faults>>

\* Fault seeding: a split that does not advance chunk_index.
ReadToken_SameIndex(t, token) ==
  LET buf == sentence_buffer[t] \o token
      unit == [text |-> Strip(buf), index |-> chunk_index[t]]
  IN
  /\ pc[t] = "read"
  /\ ntok' = ntok + 1
  /\ IF token = <<>>
     THEN UNCHANGED <<full_reply, sentence_buffer, chunk_index, tts_queue,
                      units, out>>
     ELSE /\ full_reply' = [full_reply EXCEPT ![t] = @ \o token]
          /\ out' = [out EXCEPT ![t] = Append(@, Ev("llm_token", -1, token))]
          /\ IF SplitNow(buf)
             THEN /\ sentence_buffer' = [sentence_buffer EXCEPT ![t] = <<>>]
                  /\ tts_queue' = [tts_queue EXCEPT ![t] = QueuePut(@, unit)]
                  /\ units' = [units EXCEPT ![t] = Append(@, unit)]
                  /\ UNCHANGED chunk_index
             ELSE /\ sentence_buffer' = [sentence_buffer EXCEPT ![t] = buf]
                  /\ UNCHANGED <<tts_queue, units, chunk_index>>
  /\ UNCHANGED <<segvars, heap, pc, t_sid, t_audio, t_state, t_text,
                 workvars, faults>>

ReadToken(t, token) ==
  LET buf == sentence_buffer[t] \o token
      unit == [text |-> Strip(buf), index |-> chunk_index[t]]
  IN
  /\ pc[t] = "read"
  /\ ntok' = ntok + 1
  /\ IF token = <<>>
     THEN UNCHANGED <<full_reply, sentence_buffer, chunk_index, tts_queue,
                      units, out>>
     ELSE /\ full_reply' = [full_reply EXCEPT ![t] = @ \o token]
          /\ out' = [out EXCEPT ![t] = Append(@, Ev("llm_token", -1, token))]
          /\ IF SplitNow(buf)
             THEN /\ sentence_buffer' = [sentence_buffer EXCEPT ![t] = <<>>]
                  /\ tts_queue' = [tts_queue EXCEPT ![t] = QueuePut(@, unit)]
                  /\ units' = [units EXCEPT ![t] = Append(@, unit)]
                  /\ chunk_index' = [chunk_index EXCEPT ![t] = @ + 1]
             ELSE /\ sentence_buffer' = [sentence_buffer EXCEPT ![t] = buf]
                  /\ UNCHANGED <<tts_queue, units, chunk_index>>
  /\ UNCHANGED <<segvars, heap, pc, t_sid, t_audio, t_state, t_text,
                 workvars, faults>>

\* Fault seeding: the end of the stream without the sentinel.
FlushQueue_NoSentinel(q, buf, idx) ==
  IF Strip(buf) # <<>>
  THEN QueuePut(q, [text |-> Strip(buf), index |-> idx])
  ELSE q

\* Fault seeding: a final flush that applies the length test of the loop.
FlushQueue_MinLen(q, buf, idx) ==
  LET q1 == IF Len(Strip(buf)) > MIN_SENTENCE_LEN
            THEN QueuePut(q, [text |-> Strip(buf), index |-> idx])
            ELSE q
  IN QueuePut(q1, Sentinel)

\* The queue after the statements that follow the loop: the final sentence
\* if any remains, then the sentinel.
FlushQueue(q, buf, idx) ==
  LET q1 == IF Strip(buf) # <<>>
            THEN QueuePut(q, [text |-> Strip(buf), index |-> idx])
            ELSE q
  IN QueuePut(q1, Sentinel)

\* The stream ends.
EndOfStream(t) ==
  LET buf == sentence_buffer[t] IN
  /\ pc[t] = "read"
  /\ pc' = [pc EXCEPT ![t] = "join"]
  /\ tts_queue' = [tts_queue EXCEPT ![t] = FlushQueue(@, buf, chunk_index[t])]
  /\ units' = [units EXCEPT ![t] =
                 IF Strip(buf) # <<>>
                 THEN Append(@, [text |-> Strip(buf), index |-> chunk_index[t]])
                 ELSE @]
  /\ UNCHANGED <<segvars, heap, t_sid, t_audio, t_state, t_text,
                 full_reply, sentence_buffer, chunk_index, workvars, out,
                 ntok, faults>>

\* Reading the stream raises.
ReadRaise(t) ==
  /\ pc[t] = "read"
  /\ Fail(t)
  /\ UNCHANGED <<segvars, t_sid, t_audio, t_state, t_text, full_reply,
                 sentence_buffer, chunk_index, tts_queue, units, workvars>>

\* Fault seeding: a join that does not wait for the worker.
JoinReady_NoWait(t) == TRUE

\* tts_thread.join() returns once the worker has left its loop.
JoinReady(t) == wpc[t] = "exit"

\* The value sent as total_chunks.
TotalChunks(t) == chunk_index[t]

\* Fault seeding: a turn that keeps only the system entry and its own reply.
Join_Trim(t) ==
  LET o == t_state[t] IN
  /\ pc[t] = "join"
  /\ JoinReady(t)
  /\ out' = [out EXCEPT ![t] = @ \o <<Ev("tts_complete", TotalChunks(t), <<>>),
                                     Ev("ready", -1, <<>>)>>]
  /\ heap' = [heap EXCEPT
               ![o].conversation =
                  <<Head(@), [role |-> "assistant", content |-> full_reply[t]]>>,
               ![o].processing = FALSE]
  /\ pc' = [pc EXCEPT ![t] = "done"]
  /\ UNCHANGED <<segvars, t_sid, t_audio, t_state, t_text, full_reply,
                 sentence_buffer, chunk_index, tts_queue, units, workvars,
                 ntok, faults>>

\* join returns: tts_complete, the assistant entry, and the final statements.
Join(t) ==
  LET o == t_state[t] IN
  /\ pc[t] = "join"
  /\ JoinReady(t)
  /\ out' = [out EXCEPT ![t] = @ \o <<Ev("tts_complete", TotalChunks(t), <<>>),
                                     Ev("ready", -1, <<>>)>>]
  /\ heap' = [heap EXCEPT
               ![o].conversation =
                  Append(@, [role |-> "assistant", content |-> full_reply[t]]),
               ![o].processing = FALSE]
  /\ pc' = [pc EXCEPT ![t] = "done"]
  /\ UNCHANGED <<segvars, t_sid, t_audio, t_state, t_text, full_reply,
                 sentence_buffer, chunk_index, tts_queue, units, workvars,
                 ntok, faults>>

\* -------------------------------------------------------------- tts_worker
\* TTS.get_audio_bytes: None for empty text, the response content if the
\* engine answers, None if it raises.
get_audio_bytes(text, engine) ==
  IF text = <<>> THEN "none"
  ELSE IF engine = "content" THEN "bytes"
  ELSE "none"

Engine == {"content", "empty", "error"}

\* tts_queue.get() returns: the sentinel ends the loop, a unit starts synthesis.
WorkerGet(t) ==
  /\ wpc[t] = "get"
  /\ tts_queue[t] # <<>>
  /\ tts_queue' = [tts_queue EXCEPT ![t] = Tail(@)]
  /\ IF Head(tts_queue[t]) = Sentinel
     THEN /\ wpc' = [wpc EXCEPT ![t] = "exit"]
          /\ UNCHANGED witem
     ELSE /\ wpc' = [wpc EXCEPT ![t] = "synth"]
          /\ witem' = [witem EXCEPT ![t] = Head(tts_queue[t])]
  /\ UNCHANGED <<segvars, heap, pc, t_sid, t_audio, t_state, t_text,
                 full_reply, sentence_buffer, chunk_index, units,
                 audio_response_bytes, werr, out, ntok, faults>>

\* Fault seeding: a skip event that does not carry the index of its unit.
OutcomeEvent_NoIndex(res, index) ==
  IF res = "bytes" THEN Ev("bot_audio", index, <<>>)
  ELSE Ev("bot_audio_skip", -1, <<>>)

\* The event the worker emits for a synthesis result.
OutcomeEvent(res, index) ==
  IF res = "bytes" THEN Ev("bot_audio", index, <<>>)
  ELSE Ev("bot_audio_skip", index, <<>>)

\* get_audio_bytes returns and the outcome is emitted; emit_ok = FALSE is an
\* exception raised inside the try block, which the except branch reports.
WorkerSynth(t, engine, emit_ok) ==
  LET res == get_audio_bytes(witem[t].text, engine)
      index == witem[t].index
  IN
  /\ wpc[t] = "synth"
  /\ (res = "none" /\ witem[t].text # <<>>) \/ ~emit_ok => faults < MaxFaults
  /\ faults' = IF (res = "none" /\ witem[t].text # <<>>) \/ ~emit_ok
               THEN faults + 1 ELSE faults
  /\ audio_response_bytes' = [audio_response_bytes EXCEPT ![t] = res]
  /\ IF emit_ok
     THEN /\ out' = [out EXCEPT ![t] = Append(@, OutcomeEvent(res, index))]
          /\ UNCHANGED werr
     ELSE /\ werr' = [werr EXCEPT ![t] = Append(@, index)]
          /\ UNCHANGED out
  /\ wpc' = [wpc EXCEPT ![t] = "get"]
  /\ UNCHANGED <<segvars, heap, turnvars, witem, ntok>>

\* The fields handle_audio_chunk works on for sid: those of the registered
\* object, or of the object it constructs.
StateOf(sid) ==
  IF sessions[sid] = NoObj THEN SessionState ELSE heap[sessions[sid]]

\* The bound on a chunk: no utterance counts more than n speech frames and no
\* more than k tasks have been created after it.
ChunkWithin(sid, nbytes, run, n, k) ==
  LET r == ChunkBody(StateOf(sid), nbytes, run) IN
  /\ r.peak <= n
  /\ nturns + Len(r.utts) <= k
  /\ WithinBounds(nturns + Len(r.utts), ntok)

\* The bound on a pass of the stream loop.
ReadWithin == WithinBounds(nturns, ntok + 1)

AudioChunk ==
  \E sid \in Solo, nbytes \in ChunkSizes :
    \E run \in VadRuns(FramesCut(StateOf(sid), nbytes)) :
      /\ ChunkWithin(sid, nbytes, run, MaxSpeech, MaxTurns)
      /\ handle_audio_chunk(sid, nbytes, run) /\ UNCHANGED localvars

Connect == \E sid \in Solo : handle_connect(sid) /\ UNCHANGED localvars
Disconnect == \E sid \in Solo : handle_disconnect(sid) /\ UNCHANGED localvars

TurnStep(t) ==
  \/ Start(t) /\ UNCHANGED localvars
  \/ \E raw \in RawTexts : SttReturn(t, raw) /\ UNCHANGED localvars
  \/ SttRaise(t) /\ UNCHANGED localvars
  \/ OpenStream(t) /\ UNCHANGED localvars
  \/ OpenRaise(t) /\ UNCHANGED localvars
  \/ \E token \in Tokens :
       ReadWithin /\ ReadToken(t, token) /\ UNCHANGED localvars
  \/ EndOfStream(t) /\ UNCHANGED localvars
  \/ ReadRaise(t) /\ UNCHANGED localvars
  \/ Join(t) /\ UNCHANGED localvars

WorkerStep(t) ==
  \/ WorkerGet(t) /\ UNCHANGED localvars
  \/ \E engine \in Engine, emit_ok \in BOOLEAN :
       WorkerSynth(t, engine, emit_ok) /\ UNCHANGED localvars

Next ==
  \/ Connect
  \/ Disconnect
  \/ AudioChunk
  \/ \E t \in Turns : TurnStep(t)
  \/ \E t \in Turns : WorkerStep(t)

Spec == Init /\ [][Next]_vars

\* The code schedules a started task and a worker thread until they finish:
\* an adapter call returns or raises, a queue get returns once an item is there.
FairSpec ==
  /\ Spec
  /\ \A t \in Turns : WF_vars(TurnStep(t)) /\ WF_vars(WorkerStep(t))

\* Turns that run to their end with the client connected, on the larger set
\* of fragments.
SplitNext ==
  \/ Connect
  \/ AudioChunk
  \/ \E t \in Turns : Start(t) /\ UNCHANGED localvars
  \/ \E t \in Turns, raw \in RawTexts : SttReturn(t, raw) /\ UNCHANGED localvars
  \/ \E t \in Turns : OpenStream(t) /\ UNCHANGED localvars
  \/ \E t \in Turns, token \in SplitTokens :
       ReadWithin /\ ReadToken(t, token) /\ UNCHANGED localvars
  \/ \E t \in Turns : EndOfStream(t) /\ UNCHANGED localvars
  \/ \E t \in Turns : Join(t) /\ UNCHANGED localvars
  \/ \E t \in Turns : WorkerStep(t)

SplitSpec == Init /\ [][SplitNext]_vars

\* ---------------------------------------------------- main.py: run loop
appvars == <<segvars, heap, turnvars, workvars, out, ntok, faults>>

\* FRAME_SIZE = int(SAMPLE_RATE * FRAME_DURATION / 1000)
FRAME_SIZE == (SAMPLE_RATE * FRAME_DURATION) \div 1000

\* 800 / FRAME_DURATION is a float; an integer exceeds it when it exceeds its
\* floor.
LocalSilenceFrames == LOCAL_SILENCE_MS \div FRAME_DURATION

\* SAMPLE_RATE * 0.5 / FRAME_SIZE, likewise.
LocalMinFrames == ((SAMPLE_RATE * MIN_UTTERANCE_MS) \div 1000) \div FRAME_SIZE

\* A frame taken from audio_queue, by what the loop computes from it:
\* "S" the detector answers speech and rms >= ENERGY_THRESHOLD,
\* "s" the detector answers speech and rms <  ENERGY_THRESHOLD,
\* "N" the detector answers non-speech, "E" the detector raises.
LocalFrames == {"S", "s", "N", "E"}

\* now = time.time() in a run of the recording logic alone.
Clock == StartOfRun .. (StartOfRun + 1)

\* The part of the loop body under RECORDING LOGIC, on the fields a.
RecordingLogic(a, frame, is_speech) ==
  IF is_speech THEN
    LET n == a.speech_frames_count + 1
        rec == a.is_recording \/ n > DEBOUNCE_FRAMES
    IN [a EXCEPT !.speech_frames_count = n,
                 !.is_recording = rec,
                 !.audio_buffer = IF rec THEN Append(@, frame) ELSE @,
                 !.silent_frames = 0]
  ELSE IF a.is_recording THEN
    LET buf == Append(a.audio_buffer, frame) IN
    IF a.silent_frames + 1 > LocalSilenceFrames
    THEN [a EXCEPT !.threads = IF Len(buf) > LocalMinFrames
                                THEN Append(@, buf) ELSE @,
                   !.audio_buffer = <<>>,
                   !.is_recording = FALSE,
                   !.silent_frames = 0,
                   !.speech_frames_count = 0]
    ELSE [a EXCEPT !.silent_frames = @ + 1, !.audio_buffer = buf]
  ELSE [a EXCEPT !.speech_frames_count = 0]

\* Fault seeding: a loop body that takes the detector's answer as it is.
LoopBody_NoFloor(a, playing, frame, now) ==
  LET ended == a.was_playing /\ ~playing
      a1 == [a EXCEPT !.last_stop_talking_time = IF ended THEN now ELSE @,
                      !.was_playing = playing]
      is_speech == frame \in {"S", "s"}
      a2 == [a1 EXCEPT !.playback_start_time = IF @ = 0 THEN now ELSE @]
      a3 == [a1 EXCEPT !.playback_start_time = 0]
  IN
  IF frame = "E" THEN [a1 EXCEPT !.loop = "raised"]
  ELSE IF playing THEN
    IF now - a2.playback_start_time < INTERRUPTION_COOLDOWN THEN a2
    ELSE IF is_speech THEN [a2 EXCEPT !.loop = "raised"]
    ELSE RecordingLogic(a2, frame, is_speech)
  ELSE
    IF now - a3.last_stop_talking_time < POST_SPEECH_SILENCE THEN a3
    ELSE RecordingLogic(a3, frame, is_speech)

\* Fault seeding: a loop body without the post-speech window.
LoopBody_NoWindow(a, playing, frame, now) ==
  LET ended == a.was_playing /\ ~playing
      a1 == [a EXCEPT !.last_stop_talking_time = IF ended THEN now ELSE @,
                      !.was_playing = playing]
      is_speech == frame = "S"
      a2 == [a1 EXCEPT !.playback_start_time = IF @ = 0 THEN now ELSE @]
      a3 == [a1 EXCEPT !.playback_start_time = 0]
  IN
  IF frame = "E" THEN [a1 EXCEPT !.loop = "raised"]
  ELSE IF playing THEN
    IF now - a2.playback_start_time < INTERRUPTION_COOLDOWN THEN a2
    ELSE IF is_speech THEN [a2 EXCEPT !.loop = "raised"]
    ELSE RecordingLogic(a2, frame, is_speech)
  ELSE RecordingLogic(a3, frame, is_speech)

\* Fault seeding: a loop body without the cooldown window.
LoopBody_NoCooldown(a, playing, frame, now) ==
  LET ended == a.was_playing /\ ~playing
      a1 == [a EXCEPT !.last_stop_talking_time = IF ended THEN now ELSE @,
                      !.was_playing = playing]
      is_speech == frame = "S"
      a2 == [a1 EXCEPT !.playback_start_time = IF @ = 0 THEN now ELSE @]
      a3 == [a1 EXCEPT !.playback_start_time = 0]
  IN
  IF frame = "E" THEN [a1 EXCEPT !.loop = "raised"]
  ELSE IF playing THEN
    IF is_speech THEN [a2 EXCEPT !.loop = "raised"]
    ELSE RecordingLogic(a2, frame, is_speech)
  ELSE
    IF now - a3.last_stop_talking_time < POST_SPEECH_SILENCE THEN a3
    ELSE RecordingLogic(a3, frame, is_speech)

\* One pass of the while loop of run on a frame taken from audio_queue.
\* The detector call is outside any try, and TTS (src/tts.py) defines no
\* stop method, so both end the loop with an exception.  The frames still
\* queued, which the two flushes drop, are frames the loop never takes.
LoopBody(a, playing, frame, now) ==
  LET ended == a.was_playing /\ ~playing
      a1 == [a EXCEPT !.last_stop_talking_time = IF ended THEN now ELSE @,
                      !.was_playing = playing]
      is_speech == frame = "S"
      a2 == [a1 EXCEPT !.playback_start_time = IF @ = 0 THEN now ELSE @]
      a3 == [a1 EXCEPT !.playback_start_time = 0]
  IN
  IF frame = "E" THEN [a1 EXCEPT !.loop = "raised"]
  ELSE IF playing THEN
    IF now - a2.playback_start_time < INTERRUPTION_COOLDOWN THEN a2
    ELSE IF is_speech THEN [a2 EXCEPT !.loop = "raised"]
    ELSE RecordingLogic(a2, frame, is_speech)
  ELSE
    IF now - a3.last_stop_talking_time < POST_SPEECH_SILENCE THEN a3
    ELSE RecordingLogic(a3, frame, is_speech)

\* Number of frames of kind k in a buffer.
CountOf(buf, k) == Cardinality({i \in 1..Len(buf) : buf[i] = k})

\* One pass of the loop of run: a frame is taken at time now.
run(frame, now) ==
  LET a == LoopBody(assistant, tts_is_playing, frame, now) IN
  /\ assistant.loop = "running"
  /\ now >= clock
  /\ nframes' = nframes + 1
  /\ clock' = now
  /\ assistant' = a
  /\ UNCHANGED <<tts_is_playing, thread_pc, appvars, othervars>>

\* The bound on a run of the recording logic alone.
LocalWithin(frame, now) ==
  LET a == LoopBody(assistant, tts_is_playing, frame, now) IN
  /\ nframes < MaxLocalFrames
  /\ a.speech_frames_count <= MaxLocalSpeech
  /\ CountOf(a.audio_buffer, "s") <= MaxQuiet

LocalNext ==
  \E frame \in LocalFrames, now \in Clock :
    LocalWithin(frame, now) /\ run(frame, now)

LocalSpec == Init /\ [][LocalNext]_vars

\* The two programs are separate processes: a run is a run of the server or
\* a run of the local assistant.
ServerIdle == \A sid \in Sids : conn[sid] = "new"
LocalIdle == nframes = 0

EitherNext ==
  \/ LocalIdle /\ Next
  \/ ServerIdle /\ LocalNext

EitherSpec == Init /\ [][EitherNext]_vars

\* ------------------------------------------------- app.py: two clients
\* Chunks of one frame and of one whole utterance, sent while connected.
PairSizes == {FRAME_BYTES, UtteranceFrames * FRAME_BYTES}

\* What the STT engine hands back: a text that is dropped, one that is kept.
PairTexts == {<<" ">>, <<"h", "i", " ">>}

PairChunk ==
  \E sid \in Sids, nbytes \in PairSizes :
    \E answers \in VadRuns(FramesCut(StateOf(sid), nbytes)) :
      /\ conn[sid] = "open"
      /\ ChunkWithin(sid, nbytes, answers, MaxSpeech, MaxTurns)
      /\ ChunkBody(StateOf(sid), nbytes, answers).st.silent_frames
           <= MaxPairSilence
      /\ handle_audio_chunk(sid, nbytes, answers) /\ UNCHANGED localvars

\* The steps of a task and of its worker when no adapter fails.
PairTurnStep(t) ==
  \/ Start(t) /\ UNCHANGED localvars
  \/ \E raw \in PairTexts : SttReturn(t, raw) /\ UNCHANGED localvars
  \/ OpenStream(t) /\ UNCHANGED localvars
  \/ ReadWithin /\ ReadToken(t, TokLong) /\ UNCHANGED localvars
  \/ EndOfStream(t) /\ UNCHANGED localvars
  \/ Join(t) /\ UNCHANGED localvars
  \/ WorkerGet(t) /\ UNCHANGED localvars
  \/ WorkerSynth(t, "content", TRUE) /\ UNCHANGED localvars

PairNext ==
  \/ \E sid \in Sids : handle_connect(sid) /\ UNCHANGED localvars
  \/ \E sid \in Sids : handle_disconnect(sid) /\ UNCHANGED localvars
  \/ PairChunk
  \/ \E t \in Turns : PairTurnStep(t)

PairSpec == Init /\ [][PairNext]_vars

\* ------------------------------------------ app.py: the segmenter alone
\* Chunks of half a frame and of one frame, with every answer of the
\* detector, up to the start of the first task.
SegSizes == {FRAME_BYTES \div 2, FRAME_BYTES}

SegChunk ==
  \E sid \in Solo, nbytes \in SegSizes :
    \E answers \in [1..FramesCut(StateOf(sid), nbytes) -> {"S", "N", "E"}] :
      /\ ChunkWithin(sid, nbytes, answers, MaxSegSpeech, MaxSegTurns)
      /\ handle_audio_chunk(sid, nbytes, answers) /\ UNCHANGED localvars

SegNext ==
  \/ Connect
  \/ SegChunk
  \/ \E t \in Turns : Start(t) /\ UNCHANGED localvars

SegSpec == Init /\ [][SegNext]_vars

\* ------------------------------------------- app.py: replies in a row
\* Fragments with whitespace at their edges and inside, and one of
\* whitespace only that ends in a newline.
TokSpaced ==
  <<" ">> \o Rep("a", 7) \o <<" ">> \o Rep("b", 7) \o <<".", " ">>
TokGap == Rep(" ", MIN_SENTENCE_LEN) \o <<"\n">>
ReplyTokens == {TokShort, TokBlank, TokLong, TokSpaced, TokGap}

\* The bound on a pass of the stream loop in a run of replies.
ReplyWithin == ntok < MaxReplyTokens

\* A chunk of a connected client that is not in the middle of a pause.
ReplyChunk ==
  \E sid \in Solo, nbytes \in PairSizes :
    \E answers \in VadRuns(FramesCut(StateOf(sid), nbytes)) :
      LET r == ChunkBody(StateOf(sid), nbytes, answers) IN
      /\ conn[sid] = "open"
      /\ StateOf(sid).silent_frames = 0
      /\ r.peak <= MaxSpeech
      /\ nturns + Len(r.utts) <= MaxTurns
      /\ handle_audio_chunk(sid, nbytes, answers) /\ UNCHANGED localvars

\* Turns of one connected client that run to their end, no adapter failing.
ReplyNext ==
  \/ Connect
  \/ ReplyChunk
  \/ \E t \in Turns : Start(t) /\ UNCHANGED localvars
  \/ \E t \in Turns : SttReturn(t, <<"h", "i", " ">>) /\ UNCHANGED localvars
  \/ \E t \in Turns : OpenStream(t) /\ UNCHANGED localvars
  \/ \E t \in Turns, token \in ReplyTokens :
       ReplyWithin /\ ReadToken(t, token) /\ UNCHANGED localvars
  \/ \E t \in Turns : EndOfStream(t) /\ UNCHANGED localvars
  \/ \E t \in Turns : Join(t) /\ UNCHANGED localvars
  \/ \E t \in Turns : WorkerGet(t) /\ UNCHANGED localvars
  \/ \E t \in Turns : WorkerSynth(t, "content", TRUE) /\ UNCHANGED localvars

ReplySpec == Init /\ [][ReplyNext]_vars

\* ------------------------------------------------- main.py: process_audio
\* What the STT engine may hand back to process_audio before it is stripped.
LocalRawTexts == RawTexts \cup {<<"h", "e", "y">>}
\* What the completion may hold as message.content.
Replies == {<<"o", "k">>}

\* not text.strip() or len(text.strip()) < 3
LocalRejected(text) ==
  Strip(text) = <<>> \/ Len(Strip(text)) < LOCAL_MIN_TEXT_LEN

\* Thread i exists: run has started it.
Started(i) == i <= Len(assistant.threads)
\* Thread i is between its start and its return.
Active(i) == Started(i) /\ thread_pc[i] # "done"

SetThread(i, p) == [thread_pc EXCEPT ![i] = p]

\* self.stt.transcribe returns; junk is dropped, the rest is appended to the
\* conversation as the user's entry.
process_audio_transcribe(i, raw) ==
  LET text == transcribe(raw) IN
  /\ Started(i) /\ thread_pc[i] = "transcribe"
  /\ IF LocalRejected(text)
     THEN /\ thread_pc' = SetThread(i, "done")
          /\ UNCHANGED assistant
     ELSE /\ thread_pc' = SetThread(i, "respond")
          /\ assistant' = [assistant EXCEPT !.conversation =
                             Append(@, [role |-> "user", content |-> text])]
  /\ UNCHANGED <<tts_is_playing, nframes, clock, appvars, othervars>>

\* np.concatenate or self.stt.transcribe raises: nothing catches it and the
\* thread ends.
process_audio_transcribe_raise(i) ==
  /\ Started(i) /\ thread_pc[i] = "transcribe"
  /\ thread_pc' = SetThread(i, "done")
  /\ UNCHANGED <<assistant, tts_is_playing, nframes, clock, appvars, othervars>>

\* The completion returns: the reply is appended to the conversation.
process_audio_respond(i, reply) ==
  /\ Started(i) /\ thread_pc[i] = "respond"
  /\ thread_pc' = SetThread(i, "speak")
  /\ assistant' = [assistant EXCEPT !.conversation =
                     Append(@, [role |-> "assistant", content |-> reply])]
  /\ UNCHANGED <<tts_is_playing, nframes, clock, appvars, othervars>>

\* The completion raises: the except branch prints and the thread returns.
process_audio_respond_raise(i) ==
  /\ Started(i) /\ thread_pc[i] = "respond"
  /\ thread_pc' = SetThread(i, "done")
  /\ UNCHANGED <<assistant, tts_is_playing, nframes, clock, appvars, othervars>>

\* self.tts.speak(reply): TTS (src/tts.py) defines no speak method, the
\* attribute lookup raises inside the try and the except branch prints;
\* nothing is played.
process_audio_speak(i) ==
  /\ Started(i) /\ thread_pc[i] = "speak"
  /\ thread_pc' = SetThread(i, "done")
  /\ UNCHANGED <<assistant, tts_is_playing, nframes, clock, appvars, othervars>>

process_audio(i) ==
  \/ \E raw \in LocalRawTexts : process_audio_transcribe(i, raw)
  \/ process_audio_transcribe_raise(i)
  \/ \E reply \in Replies : process_audio_respond(i, reply)
  \/ process_audio_respond_raise(i)
  \/ process_audio_speak(i)

\* The frames of a run of utterances: speech until the recording starts,
\* then silence until the utterance is cut.
TurnsFrames == {"S", "N"}
\* Frames from the first speech frame to the cut of the shortest utterance.
ShortestUtterance == (DEBOUNCE_FRAMES + 1) + (LocalSilenceFrames + 1)
MaxTurnsFrames == MaxThreads * ShortestUtterance

TurnsWithin(frame, now) ==
  LET a == LoopBody(assistant, tts_is_playing, frame, now) IN
  /\ nframes < MaxTurnsFrames
  /\ a.speech_frames_count <= DEBOUNCE_FRAMES + 1
  /\ Len(a.threads) <= MaxThreads

TurnsNext ==
  \/ \E frame \in TurnsFrames, now \in Clock :
       TurnsWithin(frame, now) /\ run(frame, now)
  \/ \E i \in Threads : process_audio(i)

TurnsSpec == Init /\ [][TurnsNext]_vars

\* ---------------------------------------------------- tts.py: playback
\* TTS.speak_local starts a thread on _play_audio_local, whose first
\* statement sets is_playing.  main.py never calls it (process_audio calls
\* speak, which TTS lacks): the playback the loop of run reacts to is one
\* started on the TTS object from outside process_audio.
speak_local ==
  /\ ~tts_is_playing
  /\ tts_is_playing' = TRUE
  /\ UNCHANGED <<assistant, nframes, clock, thread_pc, appvars, othervars>>

\* The finally clause of _play_audio_local, after sd.wait() has returned or
\* sd.play has raised.
play_audio_local_finally ==
  /\ tts_is_playing
  /\ tts_is_playing' = FALSE
  /\ UNCHANGED <<assistant, nframes, clock, thread_pc, appvars, othervars>>

\* How far time.time() may have advanced between two frames.
Advance == {0, 1, POST_SPEECH_SILENCE, INTERRUPTION_COOLDOWN}

DuplexWithin(frame, now) ==
  /\ nframes < MaxDuplexFrames
  /\ now <= StartOfRun + MaxElapsed

DuplexNext ==
  \/ \E frame \in LocalFrames, d \in Advance :
       DuplexWithin(frame, clock + d) /\ run(frame, clock + d)
  \/ speak_local
  \/ play_audio_local_finally

DuplexSpec == Init /\ [][DuplexNext]_vars

\* ------------------------------------------------------- main.py: a burst
\* A run of speech frames followed by non-speech frames, by their lengths in
\* milliseconds.
BURST_MS == 2000
GAP_MS == 900
BurstFrames == (BURST_MS + FRAME_DURATION - 1) \div FRAME_DURATION
GapFrames == GAP_MS \div FRAME_DURATION

\* A speech frame is fed as long as every frame before it was speech.
BurstWithin(frame) ==
  /\ nframes < BurstFrames + GapFrames
  /\ frame = "S" => assistant.speech_frames_count = nframes
                     /\ nframes < BurstFrames

BurstNext ==
  \E frame \in TurnsFrames, now \in Clock :
    BurstWithin(frame) /\ run(frame, now)

BurstSpec == Init /\ [][BurstNext]_vars

\* --------------------------------------------- app.py / huss.py: /hume
\* Everything the handlers of /hume and the bridge leave alone.
nonhume == <<appvars, assistant, tts_is_playing, nframes, clock, thread_pc,
             playvars>>

HumeLog(sid, e) == [hume_log EXCEPT ![sid] = Append(@, e)]

\* handle_hume_connect: a bridge is constructed and registered, and its start
\* is handed to a background task.
handle_hume_connect(sid) ==
  /\ hume_conn[sid] = "new"
  /\ hume_conn' = [hume_conn EXCEPT ![sid] = "open"]
  /\ bridge' = [bridge EXCEPT ![sid] = [HumeEVIBridge EXCEPT !.task = "spawned"]]
  /\ sessions_hume' = sessions_hume \cup {sid}
  /\ UNCHANGED <<hume_log, nonhume>>

\* start, up to the call that connects: the client is created and the task
\* waits for the connection.
start_connect(sid) ==
  /\ bridge[sid].task = "spawned"
  /\ bridge' = [bridge EXCEPT ![sid].client = TRUE, ![sid].task = "connecting"]
  /\ UNCHANGED <<sessions_hume, hume_conn, hume_log, nonhume>>

\* The connection is there: the socket is kept, is_connected is set and
\* 'listening' is emitted; the task waits for a message.
start_connected(sid) ==
  /\ bridge[sid].task = "connecting"
  /\ bridge' = [bridge EXCEPT ![sid].hume_socket = TRUE,
                              ![sid].is_connected = TRUE,
                              ![sid].task = "loop"]
  /\ hume_log' = HumeLog(sid, "listening")
  /\ UNCHANGED <<sessions_hume, hume_conn, nonhume>>

\* The finally clause of start.
start_finally(b) ==
  [b EXCEPT !.is_connected = FALSE, !.hume_socket = FALSE, !.task = "ended"]

\* Connecting, or waiting for a message, raises: 'error' is emitted.
start_raise(sid) ==
  /\ bridge[sid].task \in {"connecting", "loop"}
  /\ bridge' = [bridge EXCEPT ![sid] = start_finally(@)]
  /\ hume_log' = HumeLog(sid, "error")
  /\ UNCHANGED <<sessions_hume, hume_conn, nonhume>>

\* A message arrives: the loop ends if stop_event is set, otherwise the
\* message is handed on to the browser.
start_message(sid) ==
  /\ bridge[sid].task = "loop"
  /\ IF bridge[sid].stop_event
     THEN /\ bridge' = [bridge EXCEPT ![sid] = start_finally(@)]
          /\ UNCHANGED hume_log
     ELSE /\ hume_log' = HumeLog(sid, "message")
          /\ UNCHANGED bridge
  /\ UNCHANGED <<sessions_hume, hume_conn, nonhume>>

\* The socket hands out no more messages: the loop and the task end.
start_exhausted(sid) ==
  /\ bridge[sid].task = "loop"
  /\ bridge' = [bridge EXCEPT ![sid] = start_finally(@)]
  /\ UNCHANGED <<sessions_hume, hume_conn, hume_log, nonhume>>

start(sid) ==
  \/ start_connect(sid)
  \/ start_connected(sid)
  \/ start_raise(sid)
  \/ start_message(sid)
  \/ start_exhausted(sid)

\* HumeEVIBridge.stop
stop(b) == [b EXCEPT !.stop_event = TRUE, !.is_connected = FALSE]

\* The test of send_audio: self.is_connected and self.hume_socket
Sends(b) == b.is_connected /\ b.hume_socket

\* Fault seeding: a disconnect that stops the bridge and leaves it registered.
handle_hume_disconnect_Keep(sid) ==
  /\ hume_conn[sid] = "open"
  /\ hume_conn' = [hume_conn EXCEPT ![sid] = "closed"]
  /\ IF sid \in sessions_hume
     THEN /\ bridge' = [bridge EXCEPT ![sid] = stop(@)]
          /\ hume_log' = HumeLog(sid, "stop")
          /\ UNCHANGED sessions_hume
     ELSE UNCHANGED <<bridge, sessions_hume, hume_log>>
  /\ UNCHANGED nonhume

\* handle_hume_disconnect: the bridge is stopped and taken off the registry.
handle_hume_disconnect(sid) ==
  /\ hume_conn[sid] = "open"
  /\ hume_conn' = [hume_conn EXCEPT ![sid] = "closed"]
  /\ IF sid \in sessions_hume
     THEN /\ bridge' = [bridge EXCEPT ![sid] = stop(@)]
          /\ sessions_hume' = sessions_hume \ {sid}
          /\ hume_log' = HumeLog(sid, "stop")
     ELSE UNCHANGED <<bridge, sessions_hume, hume_log>>
  /\ UNCHANGED nonhume

\* handle_hume_audio with send_audio: the audio goes to the Hume socket
\* ("sent"; "send_error" if send_audio_input raises, which is caught), is
\* dropped by send_audio ("unsent"), or finds no bridge ("nobridge").
handle_hume_audio(sid, send_ok) ==
  /\ hume_conn[sid] \in {"open", "closed"}
  /\ hume_log' =
       HumeLog(sid, IF sid \notin sessions_hume THEN "nobridge"
                    ELSE IF ~Sends(bridge[sid]) THEN "unsent"
                    ELSE IF send_ok THEN "sent" ELSE "send_error")
  /\ UNCHANGED <<sessions_hume, hume_conn, bridge, nonhume>>

\* The entries of the log that stand for an audio_chunk event.
HumeAudio == {"sent", "send_error", "unsent", "nobridge"}

\* The bound on the events of a sid: audio_chunk events and messages of Hume.
HumeWithin(sid) ==
  /\ Cardinality({i \in 1..Len(hume_log'[sid]) : hume_log'[sid][i] \in HumeAudio})
       <= MaxHumeAudio
  /\ Cardinality({i \in 1..Len(hume_log'[sid]) : hume_log'[sid][i] = "message"})
       <= MaxHumeMessages

HumeNext ==
  \/ \E sid \in Sids : handle_hume_connect(sid)
  \/ \E sid \in Sids : handle_hume_disconnect(sid)
  \/ \E sid \in Sids, send_ok \in BOOLEAN :
       handle_hume_audio(sid, send_ok) /\ HumeWithin(sid)
  \/ \E sid \in Sids : start(sid) /\ HumeWithin(sid)

HumeSpec == Init /\ [][HumeNext]_vars

\* ------------------------------------------------- run.py: playback
\* Everything receive_events and playback_callback leave alone.
nonplay == <<appvars, assistant, tts_is_playing, nframes, clock, thread_pc,
             humevars>>

\* state.jitter_buffer_threshold
jitter_buffer_threshold == 5

\* The samples of a sequence of chunks, in order.
RECURSIVE Flatten(_)
Flatten(chunks) ==
  IF chunks = <<>> THEN <<>> ELSE Head(chunks) \o Flatten(Tail(chunks))

\* The audio of a delta of n samples: the samples are numbered in the order
\* the server sends them.
Delta(n) == [i \in 1..n |-> Len(Flatten(received)) + i]

\* receive_events on a response.audio.delta message: the decoded samples are
\* appended to the deque as one chunk, under the lock.
receive_events(n) ==
  /\ playback_deque' = Append(playback_deque, Delta(n))
  /\ received' = Append(received, Delta(n))
  /\ UNCHANGED <<is_playing, written, nonplay>>

\* Fault seeding: a callback that puts the rest of a split chunk at the back
\* of the deque.
FillBlock_Back(dq, filled, frames, outdata) ==
  IF filled < frames /\ dq # <<>>
  THEN LET chunk == Head(dq)
           needed == frames - filled
       IN IF Len(chunk) > needed
          THEN [deque |-> Append(Tail(dq), SubSeq(chunk, needed + 1, Len(chunk))),
                outdata |-> outdata \o SubSeq(chunk, 1, needed)]
          ELSE [deque |-> Tail(dq), outdata |-> outdata \o chunk]
  ELSE [deque |-> dq, outdata |-> outdata]

\* One pass of 'while filled < frames and state.playback_deque': the chunk at
\* the front is copied to outdata, whole if it fits, and otherwise as much of
\* it as fits, the rest going back to the front of the deque.
FillBlock(dq, filled, frames, outdata) ==
  IF filled < frames /\ dq # <<>>
  THEN LET chunk == Head(dq)
           needed == frames - filled
       IN IF Len(chunk) > needed
          THEN [deque |-> <<SubSeq(chunk, needed + 1, Len(chunk))>> \o Tail(dq),
                outdata |-> outdata \o SubSeq(chunk, 1, needed)]
          ELSE [deque |-> Tail(dq), outdata |-> outdata \o chunk]
  ELSE [deque |-> dq, outdata |-> outdata]

\* The loop run to its end: the samples copied so far number Len(r.outdata).
RECURSIVE FillLoop(_, _)
FillLoop(r, frames) ==
  IF Len(r.outdata) < frames /\ r.deque # <<>>
  THEN FillLoop(FillBlock(r.deque, Len(r.outdata), frames, r.outdata), frames)
  ELSE r

\* playback_callback: nothing but zeros until the deque has held
\* jitter_buffer_threshold chunks once, and whenever it is empty.
playback_callback(frames) ==
  LET begins == ~is_playing /\ Len(playback_deque) >= jitter_buffer_threshold
      r == FillLoop([deque |-> playback_deque, outdata |-> <<>>], frames)
  IN
  /\ is_playing' = (is_playing \/ begins)
  /\ IF is_playing \/ begins
     THEN /\ playback_deque' = r.deque
          /\ written' = written \o r.outdata
     ELSE UNCHANGED <<playback_deque, written>>
  /\ UNCHANGED <<received, nonplay>>

\* The bound on a run: the deltas the server sends and their lengths.
ChunkLens == 0..MaxChunkLen
PlayWithin == Len(received) < MaxChunks

PlayNext ==
  \/ \E n \in ChunkLens : PlayWithin /\ receive_events(n)
  \/ playback_callback(BlockFrames)

PlaySpec == Init /\ [][PlayNext]_vars

\* The output stream keeps calling the callback.
PlayFairSpec == PlaySpec /\ WF_vars(playback_callback(BlockFrames))

\* ------------------------------------------------------------ properties
\* Positions of out[t] that hold a synthesis outcome.
OutcomePos(t) == {i \in 1..Len(out[t]) : out[t][i].ev \in Outcomes}
\* Number of outcomes turn t emitted for index n.
OutcomeCount(t, n) == Cardinality({i \in OutcomePos(t) : out[t][i].index = n})
\* Positions of out[t] that hold event e.
EventPos(t, e) == {i \in 1..Len(out[t]) : out[t][i].ev = e}
\* The segmenter's fields of a session object.
SegFields(st) ==
  <<st.vad_buffer, st.audio_buffer, st.is_recording, st.silent_frames,
    st.speech_frames>>

\* C1: at most one process_speech turn of a session is in flight (created by
\* start_background_task and not yet past its final 'ready') at any time.
C1_AtMostOneTurnInFlight ==
  \A sid \in Sids :
    Cardinality({t \in Turns : pc[t] \in InFlight /\ t_sid[t] = sid}) <= 1

\* C2: the outcomes of a turn are emitted in index order: a later outcome
\* always carries a larger index, and as long as the worker's except branch
\* has not run they are exactly 0, 1, 2, ... in that order.
C2_OutcomesInIndexOrder ==
  \A t \in Turns :
    /\ \A i, j \in OutcomePos(t) : i < j => out[t][i].index < out[t][j].index
    /\ werr[t] = <<>> =>
         \A i \in OutcomePos(t) :
           out[t][i].index = Cardinality({j \in OutcomePos(t) : j < i})

C2_Witness ==
  \E t \in Turns : \E i, j \in OutcomePos(t) :
    i < j /\ out[t][i].index = 0 /\ out[t][j].index = 1

\* C3: once a turn is over (its task has finished and its worker has nothing
\* left to synthesize), every unit put on its queue has exactly one outcome.
C3_ExactlyOneOutcome ==
  \A t \in Turns :
    (/\ pc[t] = "done"
     /\ wpc[t] # "synth"
     /\ \A k \in 1..Len(tts_queue[t]) : tts_queue[t][k] = Sentinel)
    => \A k \in 1..Len(units[t]) : OutcomeCount(t, units[t][k].index) = 1

\* C4: total_chunks of tts_complete equals the number of units put on the
\* queue in the turn.
C4_TotalChunksCountsUnits ==
  \A t \in Turns : \A i \in EventPos(t, "tts_complete") :
    out[t][i].index = Len(units[t])

\* C5: when tts_complete has been emitted the queue has drained: the worker
\* has left its loop, every unit put on the queue has been taken and handled,
\* and no outcome follows tts_complete.
C5_CompleteAfterDrain ==
  \A t \in Turns : \A i \in EventPos(t, "tts_complete") :
    /\ tts_queue[t] = <<>>
    /\ wpc[t] = "exit"
    /\ \A j \in OutcomePos(t) : j < i
    /\ Cardinality(OutcomePos(t)) + Len(werr[t]) = Len(units[t])

C5_Witness ==
  \E t \in Turns : \E i \in EventPos(t, "tts_complete") :
    /\ Cardinality(OutcomePos(t)) = 2
    /\ Len(units[t]) = 2

\* C6: when get_audio_bytes hands back nothing for a unit (and nothing raises
\* in the worker's try block), the worker emits bot_audio_skip with that
\* unit's index, leaves the turn and the rest of the queue as they are and
\* waits for the next item; the units behind a skipped one are handled by the
\* time tts_complete is emitted.
C6_SkipStep ==
  \A t \in Turns :
    (/\ wpc[t] = "synth"
     /\ wpc'[t] # "synth"
     /\ audio_response_bytes'[t] = "none"
     /\ werr'[t] = werr[t])
    => /\ out'[t] = Append(out[t], Ev("bot_audio_skip", witem[t].index, <<>>))
       /\ wpc'[t] = "get"
       /\ tts_queue'[t] = tts_queue[t]
       /\ pc'[t] = pc[t]

C6_RestHandled ==
  \A t \in Turns : \A i \in EventPos(t, "tts_complete") :
    \A s \in OutcomePos(t) :
      out[t][s].ev = "bot_audio_skip" =>
        \A k \in 1..Len(units[t]) :
          units[t][k].index > out[t][s].index =>
            OutcomeCount(t, units[t][k].index) = 1
            \/ \E e \in 1..Len(werr[t]) : werr[t][e] = units[t][k].index

C6_SkipAndContinue == [][C6_SkipStep]_vars /\ []C6_RestHandled

C6_Witness ==
  \E t \in Turns : \E i, j \in OutcomePos(t) :
    /\ i < j
    /\ out[t][i] = Ev("bot_audio_skip", 0, <<>>)
    /\ out[t][j] = Ev("bot_audio", 1, <<>>)
    /\ EventPos(t, "tts_complete") # {}

\* C7: a step in which transcription, opening the stream or reading it fails
\* emits 'error' and then 'ready' for the turn, clears processing and touches
\* nothing else: no other turn, no segmenter field, no history entry; and the
\* processing flag is never left set without a running turn, so later audio
\* passes the gate.
C7_FailStep ==
  \A t \in Turns :
    (pc[t] \in Running /\ pc'[t] = "done" /\ faults' > faults)
    => /\ out'[t] = out[t] \o <<Ev("error", -1, <<>>), Ev("ready", -1, <<>>)>>
       /\ ~heap'[t_state[t]].processing
       /\ \A u \in Turns \ {t} : pc'[u] = pc[u] /\ out'[u] = out[u]
       /\ \A o \in ObjIds :
            /\ SegFields(heap'[o]) = SegFields(heap[o])
            /\ heap'[o].conversation = heap[o].conversation
       /\ hlog' = hlog /\ sessions' = sessions

C7_NoStuckFlag ==
  \A o \in ObjIds :
    heap[o].processing => \E t \in Turns : t_state[t] = o /\ pc[t] \in Running

C7_FailureConfined == [][C7_FailStep]_vars /\ []C7_NoStuckFlag

C7_Witness ==
  \E t \in Turns :
    /\ pc[t] = "done"
    /\ EventPos(t, "error") # {}
    /\ out[t][Len(out[t])].ev = "ready"
    /\ ~heap[t_state[t]].processing
    /\ heap[t_state[t]].is_recording
    /\ heap[t_state[t]].silent_frames > 0

\* C8: under FairSpec a processing flag that is set is cleared again, and a
\* turn that has set it reaches its end with 'ready' as the event it emitted
\* last and the flag cleared.
C8_ProcessingClears ==
  /\ \A o \in ObjIds : heap[o].processing ~> ~heap[o].processing
  /\ \A t \in Turns :
       (pc[t] \in Running) ~>
         (/\ pc[t] = "done"
          /\ out[t] # <<>>
          /\ out[t][Len(out[t])].ev = "ready"
          /\ ~heap[t_state[t]].processing)

C8_Witness ==
  \E t \in Turns :
    /\ pc[t] = "done"
    /\ EventPos(t, "tts_complete") # {}
    /\ OutcomePos(t) # {}
    /\ out[t][Len(out[t])].ev = "ready"
    /\ ~heap[t_state[t]].processing

\* C9: in a step taken while the registered object of a sid has processing
\* set, the segmenter fields of that object do not change, no status is
\* emitted by the handler and no task is created for the sid; with processing
\* false, one speech frame arriving in Idle starts a recording and emits
\* 'listening'.
C9_GateStep ==
  \A sid \in Sids :
    LET o == sessions[sid] IN
    /\ (o # NoObj /\ heap[o].processing) =>
         /\ SegFields(heap'[o]) = SegFields(heap[o])
         /\ hlog'[sid] = hlog[sid]
         /\ \A t \in Turns :
              (pc[t] = "free" /\ pc'[t] = "spawned") => t_sid'[t] # sid
    /\ (/\ o # NoObj
        /\ ~heap[o].processing
        /\ ~heap[o].is_recording
        /\ handle_audio_chunk(sid, FRAME_BYTES, <<"S">>)) =>
         /\ heap'[o].is_recording
         /\ heap'[o].audio_buffer = <<"S">>
         /\ hlog'[sid] = Append(hlog[sid], "listening")

C9_Backpressure == [][C9_GateStep]_vars

\* A turn of the session has run to its end, processing is false again and
\* the segmenter is recording the next utterance.
C9_Witness ==
  \E sid \in Sids, t \in Turns :
    /\ sessions[sid] # NoObj
    /\ t_state[t] = sessions[sid]
    /\ pc[t] = "done"
    /\ ~heap[sessions[sid]].processing
    /\ heap[sessions[sid]].is_recording
    /\ hlog[sid] = <<"listening", "processing", "listening">>

\* C10: a turn whose transcription is empty or shorter than the minimum is
\* dropped in one step that appends nothing to any history, emits 'ready' and
\* nothing else, and leaves processing false; its event log stays that single
\* 'ready'.
C10_AbortStep ==
  \A t \in Turns :
    (/\ pc[t] = "stt"
     /\ t_text'[t] # NoText
     /\ Len(t_text'[t]) < MIN_TEXT_LEN)
    => /\ pc'[t] = "done"
       /\ out'[t] = <<Ev("ready", -1, <<>>)>>
       /\ \A o \in ObjIds : heap'[o].conversation = heap[o].conversation
       /\ ~heap'[t_state[t]].processing

C10_AbortedLog ==
  \A t \in Turns :
    (t_text[t] # NoText /\ Len(t_text[t]) < MIN_TEXT_LEN)
    => pc[t] = "done" /\ out[t] = <<Ev("ready", -1, <<>>)>>

C10_SilentAbort == [][C10_AbortStep]_vars /\ []C10_AbortedLog

C10_Witness ==
  \E t \in Turns :
    /\ t_text[t] = <<"a">>
    /\ pc[t] = "done"
    /\ out[t] = <<Ev("ready", -1, <<>>)>>
    /\ ~heap[t_state[t]].processing

\* ------------------------------------------------------ segmenter claims
\* C11: while a session is Recording, whichever frame arrives next (speech or
\* non-speech) is kept: it is appended to the utterance buffer, or it ends the
\* utterance and the utterance handed on is the buffer with that frame at its
\* end.  So no frame received inside the span of an utterance is missing.
C11_EveryFrameOfSpanKept ==
  \A sid \in Sids : \A f \in {"S", "N"} :
    LET o == sessions[sid]
        st == heap[o]
        r == ChunkBody(st, FRAME_BYTES - st.vad_buffer, <<f>>)
    IN (o # NoObj /\ st.is_recording) =>
         \/ r.utts = <<>> /\ r.st.audio_buffer = Append(st.audio_buffer, f)
         \/ r.utts = <<Append(st.audio_buffer, f)>>

\* C12: no utterance handed to process_speech is shorter than the minimum
\* utterance length.
C12_NoShortUtterance ==
  \A t \in Turns : pc[t] # "free" => Len(t_audio[t]) >= MinUtteranceFrames

\* C13: non-speech frames fed to an Idle segmenter change nothing.  In the
\* server a chunk whose frames are all non-speech, handled for a session that
\* is not recording, leaves is_recording false, audio_buffer empty and the
\* frame counters as they are, emits no status and creates no task.  In the
\* local assistant a non-speech frame (by the detector or by its energy)
\* taken while not recording leaves is_recording false and the buffer empty
\* and starts no thread.  An Idle segmenter holds no frames in either program.
C13_IdleStep ==
  /\ \A sid \in Sids : \A nbytes \in ChunkSizes :
       LET o == sessions[sid]
           silence == [i \in 1..FramesCut(heap[o], nbytes) |-> "N"]
       IN (/\ o # NoObj
           /\ ~heap[o].is_recording
           /\ handle_audio_chunk(sid, nbytes, silence))
          => /\ ~heap'[o].is_recording
             /\ heap'[o].audio_buffer = <<>>
             /\ heap'[o].silent_frames = heap[o].silent_frames
             /\ heap'[o].speech_frames = heap[o].speech_frames
             /\ hlog' = hlog
             /\ nturns' = nturns /\ pc' = pc
  /\ \A frame \in {"N", "s"}, now \in Clock :
       (~assistant.is_recording /\ run(frame, now))
       => /\ ~assistant'.is_recording
          /\ assistant'.audio_buffer = <<>>
          /\ assistant'.silent_frames = assistant.silent_frames
          /\ assistant'.threads = assistant.threads

C13_IdleHoldsNothing ==
  /\ \A o \in ObjIds : ~heap[o].is_recording => heap[o].audio_buffer = <<>>
  /\ ~assistant.is_recording => assistant.audio_buffer = <<>>

C13_IdleIgnoresSilence == [][C13_IdleStep]_vars /\ []C13_IdleHoldsNothing

\* Frames were taken, the last of them while Idle, and the segmenter is Idle
\* with nothing buffered and nothing handed on.
C13_Witness ==
  /\ nframes = DEBOUNCE_FRAMES
  /\ assistant = LiveAssistant

\* C14: whatever the size of a chunk, the bytes it brings are cut into whole
\* frames of FRAME_BYTES bytes and the bytes left over stay in vad_buffer:
\* for a session that is not processing, bytes buffered before plus bytes
\* received equal FRAME_BYTES times the frames cut plus bytes buffered after,
\* and fewer than FRAME_BYTES bytes stay buffered.
C14_BytesBecomeFramesOrStay ==
  \A sid \in Sids : \A nbytes \in ChunkSizes :
    LET o == sessions[sid]
        st == heap[o]
        n == FramesCut(st, nbytes)
        r == ChunkBody(st, nbytes, [i \in 1..n |-> "N"])
    IN (o # NoObj /\ ~st.processing) =>
         /\ st.vad_buffer + nbytes = FRAME_BYTES * n + r.st.vad_buffer
         /\ r.st.vad_buffer < FRAME_BYTES

\* C15: a frame on which the detector raises has the effect of a non-speech
\* frame: the same session fields, the same statuses and the same utterances
\* handed on.
C15_RaiseIsNonSpeech ==
  \A sid \in Sids :
    LET o == sessions[sid]
        st == heap[o]
        nbytes == FRAME_BYTES - st.vad_buffer
    IN (o # NoObj /\ ~st.processing) =>
         ChunkBody(st, nbytes, <<"E">>) = ChunkBody(st, nbytes, <<"N">>)

\* C16: a sid that has disconnected has no entry in the registry: an event
\* arriving for it afterwards creates none.
C16_NoEntryAfterDisconnect ==
  \A sid \in Sids : conn[sid] = "closed" => sessions[sid] = NoObj

\* C17: once the session of a turn has disconnected, the turn reads nothing
\* more from the completion stream and emits no further llm_token, bot_audio,
\* bot_audio_skip or tts_complete.
C17_StopsStep ==
  \A t \in Turns :
    (pc[t] \in Running /\ conn[t_sid[t]] = "closed") =>
      /\ ntok' = ntok
      /\ \A i \in 1..Len(out'[t]) :
           i > Len(out[t]) =>
             out'[t][i].ev \notin
               {"llm_token", "bot_audio", "bot_audio_skip", "tts_complete"}

C17_TurnStopsOnDisconnect == [][C17_StopsStep]_vars

\* The texts of the llm_token events of a log, joined in order.
RECURSIVE TokensOf(_)
TokensOf(log) ==
  IF log = <<>> THEN <<>>
  ELSE (IF Head(log).ev = "llm_token" THEN Head(log).text ELSE <<>>)
       \o TokensOf(Tail(log))

\* s is a prefix of u.
IsPrefix(s, u) == Len(s) <= Len(u) /\ SubSeq(u, 1, Len(s)) = s

\* C18: every conversation starts with the system entry; a step never
\* modifies, removes or reorders the entries a conversation has and appends at
\* most one; an accepted transcription appends one user entry holding the
\* text; the end of the turn appends one assistant entry holding the streamed
\* tokens joined in order; so a completed turn has its user entry in its
\* session's history with its assistant entry somewhere after it.
C18_Seeded ==
  \A o \in ObjIds :
    /\ heap[o].conversation # <<>>
    /\ heap[o].conversation[1] = [role |-> "system", content |-> SYSTEM_PROMPT]

C18_AppendStep ==
  /\ \A o \in ObjIds :
       /\ IsPrefix(heap[o].conversation, heap'[o].conversation)
       /\ Len(heap'[o].conversation) <= Len(heap[o].conversation) + 1
  /\ \A t \in Turns :
       LET o == t_state[t] IN
       /\ (pc[t] = "stt" /\ pc'[t] = "open") =>
            heap'[o].conversation =
              Append(heap[o].conversation,
                     [role |-> "user", content |-> t_text'[t]])
       /\ (pc[t] = "join" /\ pc'[t] = "done") =>
            heap'[o].conversation =
              Append(heap[o].conversation,
                     [role |-> "assistant", content |-> TokensOf(out[t])])

C18_CompletedTurnInHistory ==
  \A t \in Turns :
    (pc[t] = "done" /\ EventPos(t, "tts_complete") # {}) =>
      LET conv == heap[t_state[t]].conversation IN
      \E i, j \in 1..Len(conv) :
        /\ i < j
        /\ conv[i] = [role |-> "user", content |-> t_text[t]]
        /\ conv[j] = [role |-> "assistant", content |-> TokensOf(out[t])]

C18_HistoryAppendOnly ==
  /\ []C18_Seeded
  /\ [][C18_AppendStep]_vars
  /\ []C18_CompletedTurnInHistory

C18_Witness ==
  \E t \in Turns :
    /\ pc[t] = "done"
    /\ t_state[t] # NoObj
    /\ heap[t_state[t]].conversation =
         <<[role |-> "system", content |-> SYSTEM_PROMPT],
           [role |-> "user", content |-> <<"h", "i">>],
           [role |-> "assistant", content |-> TokShort \o TokLong]>>

\* The fragment read in a step of turn t: what the step added to full_reply.
TokenRead(t) ==
  SubSeq(full_reply'[t], Len(full_reply[t]) + 1, Len(full_reply'[t]))

\* C19: in a step that appends a fragment to the sentence buffer, a unit is
\* submitted exactly when the buffer now holds a terminal marker and at least
\* MIN_SENTENCE_LEN characters; the unit is the trimmed buffer and the buffer
\* is reset; otherwise the buffer keeps the fragment and nothing is submitted.
C19_SplitStep ==
  \A t \in Turns :
    LET buf == sentence_buffer[t] \o TokenRead(t) IN
    (pc[t] = "read" /\ pc'[t] = "read" /\ TokenRead(t) # <<>>) =>
      IF HasTerminal(buf) /\ Len(buf) >= MIN_SENTENCE_LEN
      THEN /\ units'[t] = Append(units[t], [text |-> Strip(buf),
                                            index |-> chunk_index[t]])
           /\ sentence_buffer'[t] = <<>>
      ELSE /\ units'[t] = units[t]
           /\ sentence_buffer'[t] = buf

C19_SplitRule == [][C19_SplitStep]_vars

\* C20 as stated: at the end of the stream a remaining buffer that is not
\* empty is submitted as the final unit, and an empty one submits nothing.
C20_FlushStepAsStated ==
  \A t \in Turns :
    (pc[t] = "read" /\ pc'[t] = "join") =>
      IF sentence_buffer[t] # <<>>
      THEN Len(units'[t]) = Len(units[t]) + 1
      ELSE units'[t] = units[t]

C20_FlushNonEmpty == [][C20_FlushStepAsStated]_vars

\* C20, amended: at the end of the stream a remaining buffer that holds more
\* than whitespace is submitted, trimmed, as one final unit with the next
\* index (the number of units submitted before it), whatever its length and
\* whether or not it holds a terminal marker, and the sentinel follows it on
\* the queue; a buffer that is empty or whitespace only submits nothing.
C20_FlushStep ==
  \A t \in Turns :
    (pc[t] = "read" /\ pc'[t] = "join") =>
      LET buf == sentence_buffer[t]
          unit == [text |-> Strip(buf), index |-> Len(units[t])]
      IN IF Strip(buf) # <<>>
         THEN /\ units'[t] = Append(units[t], unit)
              /\ tts_queue'[t] = tts_queue[t] \o <<unit, Sentinel>>
         ELSE /\ units'[t] = units[t]
              /\ tts_queue'[t] = Append(tts_queue[t], Sentinel)

C20_FlushNonBlank == [][C20_FlushStep]_vars

\* A turn whose stream ended with a short remainder without a terminal
\* marker: the remainder is the unit after the one split in the stream.
C20_Witness ==
  \E t \in Turns :
    /\ pc[t] \in {"join", "done"}
    /\ units[t] = <<[text |-> TokLong, index |-> 0],
                    [text |-> TokShort, index |-> 1]>>

\* u occurs in s as a run of consecutive characters.
IsInfix(u, s) ==
  \E a \in 0..(Len(s) - Len(u)) : SubSeq(s, a + 1, a + Len(u)) = u

\* C21: a step of the stream loop that reads a non-empty fragment appends
\* exactly one llm_token event holding the fragment, character for character,
\* to the events of the turn, in the very step that may put the unit on the
\* queue; no llm_token is empty; at any time the llm_token events of a turn,
\* joined in order, are the fragments read so far; so every unit put on the
\* queue has its text among the forwarded fragments, and the outcome of a
\* unit follows the llm_token events of the fragments of that unit.
C21_ForwardStep ==
  \A t \in Turns :
    (pc[t] = "read" /\ pc'[t] = "read" /\ TokenRead(t) # <<>>) =>
      \E i \in 1..Len(out'[t]) :
        /\ out'[t][i] = Ev("llm_token", -1, TokenRead(t))
        /\ Len(out'[t]) = Len(out[t]) + 1
        /\ \A j \in 1..Len(out[t]) :
             out'[t][IF j < i THEN j ELSE j + 1] = out[t][j]
        /\ \A j \in i..Len(out[t]) : out[t][j].ev # "llm_token"

C21_ForwardedSoFar ==
  \A t \in Turns :
    /\ \A i \in EventPos(t, "llm_token") : out[t][i].text # <<>>
    /\ pc[t] \in {"read", "join", "done"} => TokensOf(out[t]) = full_reply[t]
    /\ \A k \in 1..Len(units[t]) : IsInfix(units[t][k].text, TokensOf(out[t]))
    /\ \A i \in OutcomePos(t) :
         \E k \in 1..Len(units[t]) :
           /\ units[t][k].index = out[t][i].index
           /\ IsInfix(units[t][k].text, TokensOf(SubSeq(out[t], 1, i - 1)))

C21_TokensForwarded == [][C21_ForwardStep]_vars /\ []C21_ForwardedSoFar

\* A turn that forwarded a fragment of whitespace and the fragment that
\* completed a sentence, and whose unit has been synthesized.
C21_Witness ==
  \E t \in Turns :
    /\ TokensOf(out[t]) = TokBlank \o TokLong
    /\ units[t] = <<[text |-> TokLong, index |-> 0]>>
    /\ OutcomePos(t) # {}

\* The frames for which the detector gives an answer.
Answered == LocalFrames \ {"E"}
\* The times a frame may be taken at in a run with playback.
DuplexClock == StartOfRun .. (StartOfRun + MaxElapsed)
\* The segmenter's fields of the local assistant.
LocalSegFields(a) ==
  <<a.is_recording, a.audio_buffer, a.silent_frames, a.speech_frames_count,
    a.threads>>
\* Playback is active and the frame taken at now falls into the cooldown
\* window that started when the loop first saw the playback.
InCooldown(now) ==
  /\ tts_is_playing
  /\ now - (IF assistant.playback_start_time = 0
            THEN now ELSE assistant.playback_start_time)
       < INTERRUPTION_COOLDOWN

\* C22: a frame the loop of run takes while playback is active and less than
\* interruption_cooldown has passed since the loop first saw the playback is
\* ignored, whether the detector calls it speech or not: the playback goes on,
\* the loop goes on, and is_recording, the utterance buffer, the two frame
\* counters and the threads started stay as they are.
C22_CooldownStep ==
  \A frame \in Answered, now \in DuplexClock :
    (InCooldown(now) /\ run(frame, now)) =>
      /\ tts_is_playing'
      /\ assistant'.loop = "running"
      /\ LocalSegFields(assistant') = LocalSegFields(assistant)

C22_CooldownIgnoresFrames == [][C22_CooldownStep]_vars

\* A recording was under way when playback started, and a frame has been
\* taken inside the cooldown window after the one that saw the playback start.
C22_Witness ==
  /\ tts_is_playing
  /\ assistant.loop = "running"
  /\ assistant.is_recording
  /\ assistant.audio_buffer # <<>>
  /\ assistant.playback_start_time # 0
  /\ clock > assistant.playback_start_time
  /\ clock - assistant.playback_start_time < INTERRUPTION_COOLDOWN

\* C23: a speech frame taken while playback is active and the cooldown has
\* passed stops the playback and starts a fresh recording at once: the loop
\* goes on, the utterance buffer and the frame counters are those of a clean
\* segmenter, and a speech frame that follows is not held back by the
\* post-speech window.
C23_InterruptStep ==
  \A now \in DuplexClock :
    (tts_is_playing /\ ~InCooldown(now) /\ run("S", now)) =>
      /\ ~tts_is_playing'
      /\ assistant'.loop = "running"
      /\ assistant'.audio_buffer = <<>>
      /\ assistant'.silent_frames = 0
      /\ assistant'.speech_frames_count = 0
      /\ ~(now - assistant'.last_stop_talking_time < POST_SPEECH_SILENCE)

C23_InterruptionRestarts == [][C23_InterruptStep]_vars

\* The time the post-speech window of a frame taken at now is counted from:
\* now itself when this frame is the first the loop takes after the playback
\* it saw has ended, the time of that first frame afterwards.
WindowStart(now) ==
  IF assistant.was_playing /\ ~tts_is_playing
  THEN now ELSE assistant.last_stop_talking_time

\* C24: the first frame the loop takes after a playback it saw has ended marks
\* the end of the playback; that frame and every frame taken, with no playback
\* active, less than post_speech_silence after it are suppressed: nothing is
\* appended, is_recording, the counters and the threads started stay as they
\* are and the loop goes on; a frame taken with no playback active once the
\* window has passed goes through the recording logic.
C24_WindowStep ==
  \A frame \in Answered, now \in DuplexClock :
    (~tts_is_playing /\ run(frame, now)) =>
      /\ assistant'.last_stop_talking_time = WindowStart(now)
      /\ IF now - WindowStart(now) < POST_SPEECH_SILENCE
         THEN /\ LocalSegFields(assistant') = LocalSegFields(assistant)
              /\ assistant'.loop = "running"
         ELSE assistant' =
                RecordingLogic([assistant EXCEPT !.was_playing = FALSE,
                                                 !.playback_start_time = 0],
                               frame, frame = "S")

C24_PostSpeechWindow == [][C24_WindowStep]_vars

\* A recording was under way, a playback the loop saw has ended, and a frame
\* after the one that marked its end has been taken inside the window.
C24_Witness ==
  /\ ~tts_is_playing
  /\ ~assistant.was_playing
  /\ assistant.is_recording
  /\ assistant.audio_buffer # <<>>
  /\ assistant.last_stop_talking_time >= StartOfRun
  /\ clock > assistant.last_stop_talking_time
  /\ clock - assistant.last_stop_talking_time < POST_SPEECH_SILENCE

\* The fields of the loop but for the frames held: two passes that differ
\* only in the frame they append agree on these.
LocalControl(a) ==
  <<a.is_recording, Len(a.audio_buffer), a.silent_frames,
    a.speech_frames_count, a.was_playing, a.last_stop_talking_time,
    a.playback_start_time, Len(a.threads), a.loop>>

\* C25: a frame with rms below ENERGY_THRESHOLD which the detector calls
\* speech is handled as a frame the detector calls non-speech: taken while
\* Idle it starts no recording, taken while Recording it does not reset the
\* silence counter (the counter grows by one or stays, or the utterance is
\* cut), and taken during playback it stops neither the playback nor the
\* loop; the pass leaves the loop where a non-speech frame would leave it.
C25_QuietStep ==
  \A now \in DuplexClock :
    run("s", now) =>
      /\ ~assistant.is_recording => ~assistant'.is_recording
      /\ (assistant.is_recording /\ assistant'.is_recording) =>
           assistant'.silent_frames \in
             {assistant.silent_frames, assistant.silent_frames + 1}
      /\ assistant'.speech_frames_count <= assistant.speech_frames_count
      /\ tts_is_playing' = tts_is_playing
      /\ assistant'.loop = "running"
      /\ LocalControl(assistant') =
           LocalControl(LoopBody(assistant, tts_is_playing, "N", now))

C25_EnergyFloor == [][C25_QuietStep]_vars

\* During a playback whose cooldown has passed a frame below the threshold
\* which the detector calls speech was taken into the recording under way as
\* a silent frame.
C25_Witness ==
  /\ tts_is_playing
  /\ assistant.loop = "running"
  /\ assistant.playback_start_time # 0
  /\ clock - assistant.playback_start_time >= INTERRUPTION_COOLDOWN
  /\ assistant.is_recording
  /\ assistant.silent_frames > 0
  /\ assistant.audio_buffer # <<>>
  /\ assistant.audio_buffer[Len(assistant.audio_buffer)] = "s"

\* The utterance of the burst as the claim has it: every frame from the first
\* speech frame to the frame at which the silence threshold is crossed.
BurstUtterance ==
  [i \in 1..(BurstFrames + LocalSilenceFrames + 1) |->
     IF i <= BurstFrames THEN "S" ELSE "N"]

\* C26: starting Idle with no playback, BurstFrames speech frames followed by
\* non-speech frames yield one utterance, handed on at the frame at which the
\* silence threshold is crossed; it holds every frame of the burst and the
\* non-speech frames up to that one, and the segmenter is then Idle with an
\* empty buffer and its counters at zero; no other utterance follows.
C26_CutStep ==
  (Len(assistant'.threads) > Len(assistant.threads)
   /\ nframes' = Len(BurstUtterance)) =>
     /\ assistant'.threads = <<BurstUtterance>>
     /\ ~assistant'.is_recording
     /\ assistant'.audio_buffer = <<>>
     /\ assistant'.silent_frames = 0
     /\ assistant'.speech_frames_count = 0

C26_OneUtterance == Len(assistant.threads) <= 1

C26_BurstYieldsWholeUtterance == [][C26_CutStep]_vars /\ []C26_OneUtterance

\* C29: at most one process_audio thread of the local assistant is between
\* its start and its return at any time.
C29_OneLocalTurn == Cardinality({i \in Threads : Active(i)}) <= 1

\* Number of non-speech frames at the end of a buffer: the consecutive
\* non-speech frames since the last speech frame.
RECURSIVE TrailingSilence(_)
TrailingSilence(buf) ==
  IF buf = <<>> \/ buf[Len(buf)] # "N" THEN 0
  ELSE 1 + TrailingSilence(SubSeq(buf, 1, Len(buf) - 1))

\* An utterance cut at the first frame at which the silence since its last
\* speech frame exceeds the threshold.
CutAtFirst(u) ==
  /\ u # <<>>
  /\ u[1] = "S"
  /\ TrailingSilence(u) = SilenceFrames + 1
  /\ \A k \in 1..(Len(u) - 1) :
       TrailingSilence(SubSeq(u, 1, k)) <= SilenceFrames

\* Number of events e in a log of status events.
StatusCount(log, e) == Cardinality({i \in 1..Len(log) : log[i] = e})

\* C30: while Recording, silent_frames is the number of consecutive
\* non-speech frames since the last speech frame and has not passed the
\* threshold; while Idle the buffer and both counters are clear.
C30_Counter ==
  \A o \in ObjIds :
    LET st == heap[o] IN
    IF st.is_recording
    THEN /\ st.silent_frames = TrailingSilence(st.audio_buffer)
         /\ st.silent_frames <= SilenceFrames
         /\ st.speech_frames = CountOf(st.audio_buffer, "S")
         /\ st.speech_frames > 0
    ELSE /\ st.audio_buffer = <<>>
         /\ st.silent_frames = 0
         /\ st.speech_frames = 0

\* C30: one frame handled for a Recording session: a speech frame is appended
\* and resets silent_frames to 0; a non-speech frame ends the utterance
\* exactly when the silence since the last speech frame then exceeds
\* SilenceFrames, and at that frame is_recording becomes false, the buffer
\* and both counters are cleared, one 'processing' status is emitted and one
\* utterance, holding the buffer and the frame, is handed on; before that the
\* frame is appended and counted and nothing is emitted.
C30_Frame ==
  \A sid \in Sids : \A f \in {"S", "N"} :
    LET o == sessions[sid]
        st == heap[o]
        r == ChunkBody(st, FRAME_BYTES - st.vad_buffer, <<f>>)
        buf == Append(st.audio_buffer, f)
    IN (o # NoObj /\ st.is_recording /\ ~st.processing) =>
         IF f = "S"
         THEN /\ r.st.is_recording
              /\ r.st.silent_frames = 0
              /\ r.st.audio_buffer = buf
              /\ r.utts = <<>> /\ r.emits = <<>>
         ELSE IF TrailingSilence(buf) > SilenceFrames
         THEN /\ ~r.st.is_recording
              /\ r.st.audio_buffer = <<>>
              /\ r.st.silent_frames = 0
              /\ r.st.speech_frames = 0
              /\ r.emits = <<"processing">>
              /\ r.utts = <<buf>>
         ELSE /\ r.st.is_recording
              /\ r.st.silent_frames = TrailingSilence(buf)
              /\ r.st.audio_buffer = buf
              /\ r.utts = <<>> /\ r.emits = <<>>

\* C30: every utterance handed to a task was cut at the first frame at which
\* the silence exceeded the threshold, and the tasks created are as many as
\* the 'processing' statuses emitted.
C30_Turns ==
  /\ \A t \in Turns : pc[t] # "free" => CutAtFirst(t_audio[t])
  /\ \A sid \in Sids :
       StatusCount(hlog[sid], "processing")
         = Cardinality({t \in Turns : pc[t] # "free" /\ t_sid[t] = sid})

C30_EndOfUtterance == []C30_Counter /\ []C30_Frame /\ []C30_Turns

\* A task holds an utterance in which speech resumed after a pause.
C30_Witness ==
  \E t \in Turns :
    /\ pc[t] # "free"
    /\ CountOf(t_audio[t], "S") = MaxSegSpeech
    /\ t_audio[t][2] = "N"
    /\ Len(t_audio[t]) > SilenceFrames + MaxSegSpeech + 1

\* C27: the handlers and tasks are eventlet greenlets, which give way only at
\* blocking calls, and there is none between a test of the registry and the
\* read that follows it: each is one step.  A task that gets its state gets
\* the object the registry holds for its sid in that very step and sets
\* processing on it; it returns at once exactly when the registry holds none;
\* a chunk changes the segmenter fields only of the object the registry holds
\* for its sid after the step, which is the one it found or the one it has
\* just put there; and no step that tests and reads the registry removes or
\* replaces an entry.
C27_LookupStep ==
  /\ \A t \in Turns :
       (pc[t] = "spawned" /\ pc'[t] # "spawned") =>
         LET o == sessions[t_sid[t]] IN
         /\ sessions' = sessions
         /\ IF o = NoObj
            THEN pc'[t] = "done" /\ t_state'[t] = t_state[t] /\ heap' = heap
            ELSE /\ pc'[t] = "stt"
                 /\ t_state'[t] = o
                 /\ heap'[o].processing
  /\ \A t \in Turns : t_state'[t] # t_state[t] => pc[t] = "spawned"
  /\ \A o \in ObjIds :
       SegFields(heap'[o]) # SegFields(heap[o]) =>
         \E sid \in Sids :
           /\ sessions'[sid] = o
           /\ sessions[sid] \in {o, NoObj}

C27_LookupAndUseAtomic == [][C27_LookupStep]_vars

\* A task started after its sid's entry had been removed and put back: it
\* works on the object the registry held when it looked.
C27_Witness ==
  \E t \in Turns :
    /\ pc[t] \notin {"free", "spawned"}
    /\ conn[t_sid[t]] = "closed"
    /\ nobj > 1
    /\ t_state[t] = nobj

\* The step is an operation on sid a: its connect, its disconnect, one of its
\* chunks, or a step of one of its tasks or of that task's worker.
OperationOn(a) ==
  \/ handle_connect(a)
  \/ handle_disconnect(a)
  \/ \E nbytes \in PairSizes :
       \E answers \in VadRuns(FramesCut(StateOf(a), nbytes)) :
         handle_audio_chunk(a, nbytes, answers)
  \/ \E t \in Turns : t_sid[t] = a /\ pc[t] # "free" /\ PairTurnStep(t)

\* The objects sid b works on: the one registered for it and those its tasks
\* hold.
ObjectsOf(b) ==
  ({sessions[b]} \cup {t_state[t] : t \in {u \in Turns : t_sid[u] = b}})
    \ {NoObj}

\* C28: a step that is an operation on one sid leaves alone all that belongs
\* to another: its registry entry, the fields (segmenter state, processing,
\* conversation) of every object it works on, the status events sent to it,
\* and its tasks with their events; every event the step emits goes to the
\* log of the sid operated on or to a task of that sid.
C28_IsolationStep ==
  \A a, b \in Sids :
    (a # b /\ OperationOn(a)) =>
      /\ sessions'[b] = sessions[b]
      /\ conn'[b] = conn[b]
      /\ \A o \in ObjectsOf(b) : heap'[o] = heap[o]
      /\ hlog'[b] = hlog[b]
      /\ \A t \in Turns :
           (t_sid[t] = b /\ pc[t] # "free") =>
             /\ pc'[t] = pc[t] /\ t_sid'[t] = b
             /\ t_state'[t] = t_state[t]
             /\ out'[t] = out[t]
             /\ tts_queue'[t] = tts_queue[t]
      /\ \A t \in Turns : out'[t] # out[t] => t_sid'[t] = a

\* C28: two sids never work on the same object.
C28_NoSharedObject ==
  \A a, b \in Sids : a # b => ObjectsOf(a) \cap ObjectsOf(b) = {}

C28_SessionIsolation == [][C28_IsolationStep]_vars /\ []C28_NoSharedObject

\* One sid has finished a turn and then left while the other, with a turn of
\* its own under way, is recording; the other's history is as it started.
C28_Witness ==
  \E a, b \in Sids :
    /\ a # b
    /\ conn[a] = "closed"
    /\ sessions[b] # NoObj
    /\ heap[sessions[b]].is_recording
    /\ heap[sessions[b]].processing
    /\ heap[sessions[b]].conversation = SessionState.conversation
    /\ \E t \in Turns :
         /\ t_sid[t] = a /\ pc[t] = "done"
         /\ EventPos(t, "tts_complete") # {}
         /\ hlog[a] # <<>>

\* C31: 'ready' is the last event of a turn and is emitted once: in every
\* state the events of a turn hold at most one 'ready', and nothing follows it.
C31_ReadyIsLast ==
  \A t \in Turns :
    /\ Cardinality(EventPos(t, "ready")) <= 1
    /\ \A i \in EventPos(t, "ready") : i = Len(out[t])

\* C32: a TTS worker that was started terminates: under FairSpec a worker
\* that is in its loop leaves it, and in no state is a worker waiting on an
\* empty queue whose turn has ended.
C32_NoWorkerLeftBlocked ==
  \A t \in Turns :
    ~(pc[t] = "done" /\ wpc[t] = "get" /\ tts_queue[t] = <<>>)

C32_WorkerTerminates ==
  /\ \A t \in Turns : (wpc[t] \in {"get", "synth"}) ~> (wpc[t] = "exit")
  /\ []C32_NoWorkerLeftBlocked

\* The role a conversation holds at position i when it alternates.
RoleAt(i) == IF i = 1 THEN "system" ELSE IF i % 2 = 0 THEN "user" ELSE "assistant"
Alternates(conv) == \A i \in 1..Len(conv) : conv[i].role = RoleAt(i)

\* C33: in every state the conversation of every session, and that of the
\* local assistant, is the system entry followed by user and assistant
\* entries in strict alternation.
C33_ConversationAlternates ==
  /\ \A o \in ObjIds : Alternates(heap[o].conversation)
  /\ Alternates(assistant.conversation)

\* C34: the units submitted in a turn carry the indices 0, 1, 2, ... in the
\* order of submission: the k-th unit put on the queue of a turn has index
\* k - 1, in every turn, and while the stream is read chunk_index is the
\* number of units submitted so far.
C34_IndicesInSequence ==
  \A t \in Turns :
    /\ \A k \in 1..Len(units[t]) : units[t][k].index = k - 1
    /\ pc[t] = "read" => chunk_index[t] = Len(units[t])

\* Two turns of a run, each of which submitted units: the second starts again
\* at 0 after the first got as far as 1.
C34_Witness ==
  \E t, u \in Turns :
    /\ t # u
    /\ Len(units[t]) >= 2
    /\ Len(units[u]) >= 1
    /\ units[t][2].index = 1
    /\ units[u][1].index = 0

\* The texts of the units a turn submitted, in index order.
UnitTexts(t) == [k \in 1..Len(units[t]) |-> units[t][k].text]

\* reply is the texts of us, in order, with nothing but whitespace before,
\* between and after them.
RECURSIVE Covers(_, _)
Covers(reply, us) ==
  IF us = <<>> THEN Strip(reply) = <<>>
  ELSE LET r == LStrip(reply)
           u == Head(us)
       IN /\ IsPrefix(u, r)
          /\ Covers(SubSeq(r, Len(u) + 1, Len(r)), Tail(us))

\* C35: splitting loses no text: once the stream of a turn has ended, the
\* reply is the texts of the units submitted, in index order, each exactly
\* once, with only whitespace between them, before the first and after the
\* last; while the stream is read the same holds of the reply with the
\* sentence buffer taken off its end.
C35_SplitLosesNoText ==
  \A t \in Turns :
    /\ pc[t] \in {"join", "done"} => Covers(full_reply[t], UnitTexts(t))
    /\ pc[t] = "read" =>
         /\ Len(sentence_buffer[t]) <= Len(full_reply[t])
         /\ sentence_buffer[t] =
              SubSeq(full_reply[t],
                     Len(full_reply[t]) - Len(sentence_buffer[t]) + 1,
                     Len(full_reply[t]))
         /\ Covers(SubSeq(full_reply[t], 1,
                          Len(full_reply[t]) - Len(sentence_buffer[t])),
                   UnitTexts(t))

\* A finished turn whose reply held whitespace at the edges of a unit and
\* inside it: two units, and the reply is longer than their texts together.
C35_Witness ==
  \E t \in Turns :
    /\ pc[t] = "done"
    /\ full_reply[t] = TokSpaced \o TokShort \o TokBlank
    /\ UnitTexts(t) = <<SubSeq(TokSpaced, 2, Len(TokSpaced) - 1), TokShort>>

\* C36: start-of-speech debounce of the local assistant: the recording has
\* started once DEBOUNCE_FRAMES consecutive speech frames have been taken
\* and on no shorter run, and while nothing is recorded the utterance buffer
\* is empty.
C36_DebounceOfThree ==
  /\ assistant.speech_frames_count >= DEBOUNCE_FRAMES => assistant.is_recording
  /\ assistant.is_recording => assistant.speech_frames_count >= DEBOUNCE_FRAMES
  /\ ~assistant.is_recording => assistant.audio_buffer = <<>>

\* The entries of the log at which audio went to the Hume socket, or was on
\* its way when send_audio_input raised.
ForwardPos(sid) ==
  {i \in 1..Len(hume_log[sid]) : hume_log[sid][i] \in {"sent", "send_error"}}

\* C37: once stop has been called on the bridge of a sid, no audio of that
\* sid goes to the Hume socket: a step taken with stop_event set forwards
\* nothing, and in the log of a sid no forwarding follows the stop, whether
\* the connection was there at the stop, came after it, or never came.
C37_StoppedStep ==
  \A sid \in Sids :
    bridge[sid].stop_event =>
      /\ bridge'[sid].stop_event
      /\ Len(hume_log'[sid]) > Len(hume_log[sid]) =>
           hume_log'[sid][Len(hume_log'[sid])] \notin {"sent", "send_error"}

C37_NothingAfterStop ==
  \A sid \in Sids :
    \A i \in 1..Len(hume_log[sid]) :
      hume_log[sid][i] = "stop" => \A j \in ForwardPos(sid) : j < i

C38_WrittenIsPrefix ==
  /\ IsPrefix(written, Flatten(received))
  /\ written \o Flatten(playback_deque) = Flatten(received)
  /\ \A i \in 1..Len(written) : written[i] = i

\* A chunk split across two callbacks: playback has started, one more chunk
\* than the jitter buffer asks for has arrived, and the rest of a chunk is at
\* the front of the deque with other chunks behind it.
C38_Witness ==
  /\ is_playing
  /\ Len(received) = jitter_buffer_threshold + 1
  /\ Len(playback_deque) >= 2
  /\ Len(written) >= BlockFrames
  /\ \E k \in 1..Len(received) :
       /\ Len(Head(playback_deque)) < Len(received[k])
       /\ Head(playback_deque) # <<>>
       /\ Head(playback_deque)[Len(Head(playback_deque))]
            = received[k][Len(received[k])]
  /\ written \o Flatten(playback_deque) = Flatten(received)

\* C39: under PlayFairSpec, where the callback keeps being invoked, every
\* sample received is written in the end: the jitter buffer delays the start
\* of playback and leaves nothing unplayed.
C39_EveryChunkPlayed ==
  \A k \in 1..(MaxChunks * MaxChunkLen) :
    (Len(Flatten(received)) >= k) ~> (Len(written) >= k)

\* C40: between handler steps the segmenter fields of every session object
\* agree: while is_recording is false the utterance buffer is empty and
\* silent_frames is 0; while it is true the buffer is not empty and starts
\* with a speech frame; and silent_frames is never above 300 / FRAME_DURATION.
C40_SegmenterConsistent ==
  \A o \in ObjIds :
    LET st == heap[o] IN
    /\ ~st.is_recording => st.audio_buffer = <<>> /\ st.silent_frames = 0
    /\ st.is_recording => st.audio_buffer # <<>> /\ Head(st.audio_buffer) = "S"
    /\ st.silent_frames <= SILENCE_MS \div FRAME_DURATION

\* A session that has cut one utterance and records the next, with as many
\* frames of silence counted as the threshold allows.
C40_Witness ==
  \E sid \in Solo :
    /\ sessions[sid] # NoObj
    /\ nturns >= 1
    /\ heap[sessions[sid]].is_recording
    /\ heap[sessions[sid]].silent_frames = SILENCE_MS \div FRAME_DURATION

====
